---- MODULE Spec2Model ----
(***************************************************************************)
(* A model of the NexusMods download pipeline of MasterGenotype/Modular:   *)
(* the thread-safe task queue, the API worker pool of the two resolution   *)
(* stages, the checkpoint file written between stage 2 and stage 3, and    *)
(* the download stage with its retry loop (src/src/NexusMods.cpp and       *)
(* src/src/HTTPClient.cpp).                                                *)
(*                                                                         *)
(* The module holds several specifications over one set of variables; each *)
(* specification drives one part of the program and leaves the variables   *)
(* of the other parts at their initial values.                             *)
(*   SpecQueue         ThreadSafeQueue drained by concurrent consumers      *)
(*   SpecApi           get_file_ids / generate_download_links, api_worker   *)
(*   SpecCheckpoint    save_download_links, then download_files' parse      *)
(*   SpecDownload      download_files' workers over a queue of tasks        *)
(*   SpecDownloadFair  SpecDownload with every thread scheduled fairly      *)
(*   SpecRetry         download_file_with_retries on a single task          *)
(*   SpecStage3        download_files as a whole, called once or twice      *)
(*   SpecPipeline      runNexusModsForOneDomain, the four calls in a row    *)
(*   SpecMain          main: setup, one command, cleanup                    *)
(*   SpecConsole       the download stage with the console_mutex messages   *)
(*   SpecLocks         both worker pools, every lock taken and released     *)
(*   SpecAnyHardware   the stages for any hardware_concurrency(), 0 too     *)
(*   SpecAnyHardwareFair   the same with every thread scheduled fairly      *)
(***************************************************************************)
EXTENDS Integers, Sequences, FiniteSets, TLC

VARIABLES
    \* ---- ThreadSafeQueue<T> and its callers (SpecQueue) ----
    m_queue,        \* std::queue<T> m_queue: the items, head first
    m_mutex,        \* std::mutex m_mutex: the set of threads holding it
    numConsumers,   \* M: how many consumer threads drain the queue
    pushed,         \* N so far: how many tasks the producer has pushed
    started,        \* TRUE once the consumers have been started
    qpc,            \* each consumer's position inside its try_pop loop
    value,          \* each consumer's out-parameter `T& value`
    got,            \* each consumer's successful try_pop results, in order
    \* ---- download stage: download_files and its workers (SpecDownload) ----
    download_queue,   \* ThreadSafeQueue<DownloadTask> download_queue
    numTasks,         \* how many DownloadTasks download_files enqueued
    num_threads,      \* download_files: std::thread::hardware_concurrency()
    threads,          \* how many download workers have been created
    dmain,            \* position of download_files after the queue is built
    wpc,              \* each download worker's position
    wtask,            \* download_worker: `DownloadTask task`
    attempt,          \* download_file_with_retries: `int attempt`
    progress_counter, \* std::atomic<int> progress_counter
    file,             \* content of each task's destination file
    status,           \* each task's state in the retry state machine
    attempts,         \* per task: calls of HTTPClient::download_file so far
    waits,            \* per task: 5-second backoff sleeps so far
    firstOk,          \* per task: the first attempt whose transfer succeeded
    last,             \* per task: what the transport did in the latest attempt
    transport,        \* what a call of download_file can meet in this run
    partialWritten,   \* per task: a failed attempt has written to the file
    dslept,           \* per task: seconds its worker has slept while holding it
    \* ---- API stages: get_file_ids / generate_download_links (SpecApi) ----
    stage,          \* "files" (get_file_ids) or "links" (generate_download_links)
    input,          \* the argument: mod_ids, or mod_file_ids
    tasksIn,        \* the tasks in the order they were pushed to task_queue
    task_queue,     \* ThreadSafeQueue<Task> task_queue (positions in tasksIn)
    result_queue,   \* ThreadSafeQueue<Result> result_queue
    hw,             \* std::thread::hardware_concurrency()
    athreads,       \* how many api_worker threads have been created
    amain,          \* position of the calling thread
    apc,            \* each api_worker's position
    atask,          \* api_worker: `Task task` (its position in tasksIn)
    out,            \* the map being assembled: mod_file_ids / download_links
    calls,          \* per task: how many http_get calls were made for it
    resp,           \* per task: the response its latest http_get call got
    pushLog,        \* the tasks in the order their results were pushed
    napped,         \* seconds the api_workers of the stage have slept, in all
    \* ---- checkpoint: save_download_links, download_files (SpecCheckpoint) ----
    links,          \* save_download_links' argument download_links
    ckExists,       \* whether base/domain/download_links.txt exists
    ckData,         \* its content, a sequence of characters
    saved,          \* save_download_links wrote the file in this run
    cpc,            \* position of the thread running the two functions
    lines,          \* download_files: std::vector<std::string> lines
    li,             \* the line the parse loop (line 359) is at
    parsed,         \* the DownloadTasks pushed to download_queue, in order
    dirs,           \* the directories created so far
    run,            \* which call of download_files this is: 1, or 2 on a re-run
    firstRun,       \* the destination files as the first call left them
    \* ---- main (SpecMain) ----
    mpc,            \* position of main
    curl_global,    \* what curl_global_init returned in HTTPClient::initialize
    config_opt,     \* initialize_app's result: "value" or "nullopt"
    exit_code,      \* main: int exit_code
    \* ---- console output of the workers (SpecConsole) ----
    console_mutex,  \* std::mutex console_mutex: the set of threads holding it
    writing,        \* the threads that are inside a write to std::cout / std::cerr
    q_mutex,        \* m_mutex of each queue of the pipeline: the threads holding it
    completed,      \* download_worker: `int completed`, 0 outside its block
    progress_line   \* completed of the latest "Progress: [completed/total]" line

qvars == <<m_queue, m_mutex, numConsumers, pushed, started, qpc, value, got>>

dvars == <<download_queue, numTasks, num_threads, threads, dmain, wpc, wtask,
           attempt, progress_counter, file, status, attempts, waits, firstOk,
           last, transport, partialWritten, dslept>>

avars == <<stage, input, tasksIn, task_queue, result_queue, hw, athreads, amain,
           apc, atask, out, calls, resp, pushLog, napped>>

cvars == <<links, ckExists, ckData, saved, cpc, lines, li, parsed, dirs, run, firstRun>>

mvars == <<mpc, curl_global, config_opt, exit_code>>

kvars == <<console_mutex, writing, q_mutex, completed, progress_line>>

vars == <<qvars, dvars, avars, cvars, mvars, kvars>>

\* What each specification leaves alone.
notQueue == <<dvars, avars, cvars, mvars, kvars>>
notDownload == <<qvars, avars, cvars, mvars, kvars>>
notApi == <<qvars, dvars, cvars, mvars, kvars>>
notCheckpoint == <<qvars, dvars, avars, mvars, kvars>>

\* ------------------------------------------------------------------------
\* Bounds of the model
\* ------------------------------------------------------------------------
MaxTasks == 3        \* tasks pushed to a queue in one run
MaxConsumers == 3    \* consumer threads of the queue specification
MaxDownloads == 2    \* DownloadTasks in the download queue
MaxWorkers == 2      \* largest value of hardware_concurrency() considered
MaxApiTasks == 2     \* tasks of one API stage
MaxRecords == 2      \* entries of the link map written to the checkpoint
MaxUrlLen == 2       \* length of the URLs enumerated over UrlAlphabet

\* ------------------------------------------------------------------------
\* Helpers
\* ------------------------------------------------------------------------
Range(s) == {s[i] : i \in 1..Len(s)}

Min(a, b) == IF a < b THEN a ELSE b

\* ------------------------------------------------------------------------
\* Index sets, and the value of each part's variables while another part runs
\* ------------------------------------------------------------------------
Consumers == 1..MaxConsumers
Tasks == 1..MaxDownloads
Workers == 1..MaxWorkers
Entries == 1..MaxApiTasks

\* The transport has not run yet for a task.
NoOutcome == [kind |-> "none", res |-> "none", http |-> 0, data |-> <<>>]

IdleQueue ==
    /\ m_queue = <<>>
    /\ m_mutex = {}
    /\ numConsumers = 1
    /\ pushed = 0
    /\ started = FALSE
    /\ qpc = [c \in Consumers |-> "call"]
    /\ value = [c \in Consumers |-> 0]
    /\ got = [c \in Consumers |-> <<>>]

IdleDownload ==
    /\ download_queue = <<>>
    /\ numTasks = 0
    /\ num_threads = 1
    /\ threads = 0
    /\ dmain = "idle"
    /\ wpc = [w \in Workers |-> "unstarted"]
    /\ wtask = [w \in Workers |-> 0]
    /\ attempt = [w \in Workers |-> 0]
    /\ progress_counter = 0
    /\ file = [t \in Tasks |-> <<>>]
    /\ status = [t \in Tasks |-> "Pending"]
    /\ attempts = [t \in Tasks |-> 0]
    /\ waits = [t \in Tasks |-> 0]
    /\ firstOk = [t \in Tasks |-> 0]
    /\ last = [t \in Tasks |-> NoOutcome]
    /\ transport = {}
    /\ partialWritten = [t \in Tasks |-> FALSE]
    /\ dslept = [t \in Tasks |-> 0]

\* No http_get call has been made yet for a task.
NoResponse == [status |-> 0, json |-> "none", items |-> <<>>]

IdleApi ==
    /\ stage = "none"
    /\ input = <<>>
    /\ tasksIn = <<>>
    /\ task_queue = <<>>
    /\ result_queue = <<>>
    /\ hw = 1
    /\ athreads = 0
    /\ amain = "idle"
    /\ apc = [w \in Workers |-> "unstarted"]
    /\ atask = [w \in Workers |-> 0]
    /\ out = <<>>
    /\ calls = [i \in Entries |-> 0]
    /\ resp = [i \in Entries |-> NoResponse]
    /\ pushLog = <<>>
    /\ napped = 0

IdleCheckpoint ==
    /\ links = <<>>
    /\ ckExists = FALSE
    /\ ckData = <<>>
    /\ saved = FALSE
    /\ cpc = "idle"
    /\ lines = <<>>
    /\ li = 0
    /\ parsed = <<>>
    /\ dirs = {}
    /\ run = 1
    /\ firstRun = <<>>

IdleMain ==
    /\ mpc = "idle"
    /\ curl_global = "none"
    /\ config_opt = "unread"
    /\ exit_code = 0

\* The ThreadSafeQueue objects worker threads share.
PipelineQueues == {"task_queue", "result_queue", "download_queue"}

IdleConsole ==
    /\ console_mutex = {}
    /\ writing = {}
    /\ q_mutex = [q \in PipelineQueues |-> {}]
    /\ completed = [w \in Workers |-> 0]
    /\ progress_line = 0

\* ========================================================================
\* ThreadSafeQueue (NexusMods.cpp 83-104)
\* ========================================================================
\* The set of threads holding a mutex: empty when it is free.
Unlocked == {}

\* std::lock_guard<std::mutex> lock(m_mutex): the constructor returns only
\* when no thread holds the mutex.
LockGuardMissing(holder) == TRUE
LockGuard(holder) == holder = Unlocked

\* m_queue.front() / m_queue.pop(); both are undefined on an empty queue and
\* try_pop reaches them only after m_queue.empty() returned false under the
\* lock, so the empty branches are never evaluated by the program.
QueueBack(q, old) == IF q = <<>> THEN old ELSE q[Len(q)]
QueueFront(q, old) == IF q = <<>> THEN old ELSE Head(q)
QueuePop(q) == IF q = <<>> THEN q ELSE Tail(q)

\* push(T value): lock, m_queue.push(value), unlock.  The producer is the
\* only thread running while it pushes, so the three steps are one action.
QueuePushLost(q, v) == q
QueuePush(q, v) == Append(q, v)

\* try_pop lines 93-95: if (m_queue.empty()) return false.  A pop that
\* waited for an item would never take this branch.
EmptyWaitsForPush(q) == FALSE
EmptyReturnsFalse(q) == q = <<>>

QueueState ==
    /\ m_queue = <<>>
    /\ m_mutex = Unlocked
    /\ numConsumers \in 1..MaxConsumers
    /\ pushed = 0
    /\ started = FALSE
    /\ qpc = [c \in Consumers |-> "call"]
    /\ value = [c \in Consumers |-> 0]    \* not yet assigned
    /\ got = [c \in Consumers |-> <<>>]

InitQueue == QueueState /\ IdleDownload /\ IdleApi /\ IdleCheckpoint /\ IdleMain /\ IdleConsole

\* The producer pushes one more task; tasks are named by their push number.
Push ==
    /\ ~started
    /\ pushed < MaxTasks
    /\ LockGuard(m_mutex)
    /\ m_queue' = QueuePush(m_queue, pushed + 1)
    /\ pushed' = pushed + 1
    /\ UNCHANGED <<m_mutex, numConsumers, started, qpc, value, got>>
    /\ UNCHANGED notQueue

\* All tasks are enqueued; the consumer threads are started.
StartConsumers ==
    /\ ~started
    /\ started' = TRUE
    /\ UNCHANGED <<m_queue, m_mutex, numConsumers, pushed, qpc, value, got>>
    /\ UNCHANGED notQueue

\* try_pop line 92: take the mutex.
TryPopLock(c) ==
    /\ started /\ c <= numConsumers
    /\ qpc[c] = "call"
    /\ LockGuard(m_mutex)
    /\ m_mutex' = {c}
    /\ qpc' = [qpc EXCEPT ![c] = "check"]
    /\ UNCHANGED <<m_queue, numConsumers, pushed, started, value, got>>
    /\ UNCHANGED notQueue

\* try_pop lines 93-95: the queue is empty, return false (the lock_guard
\* releases the mutex); the consumer stops draining.
TryPopEmpty(c) ==
    /\ qpc[c] = "check"
    /\ EmptyReturnsFalse(m_queue)
    /\ m_mutex' = Unlocked
    /\ qpc' = [qpc EXCEPT ![c] = "done"]
    /\ UNCHANGED <<m_queue, numConsumers, pushed, started, value, got>>
    /\ UNCHANGED notQueue

\* try_pop line 96: value = std::move(m_queue.front()).
TryPopFront(c) ==
    /\ qpc[c] = "check"
    /\ m_queue # <<>>
    /\ value' = [value EXCEPT ![c] = QueueFront(m_queue, value[c])]
    /\ qpc' = [qpc EXCEPT ![c] = "pop"]
    /\ UNCHANGED <<m_queue, m_mutex, numConsumers, pushed, started, got>>
    /\ UNCHANGED notQueue

\* try_pop line 97: m_queue.pop().
TryPopPop(c) ==
    /\ qpc[c] = "pop"
    /\ m_queue' = QueuePop(m_queue)
    /\ qpc' = [qpc EXCEPT ![c] = "return"]
    /\ UNCHANGED <<m_mutex, numConsumers, pushed, started, value, got>>
    /\ UNCHANGED notQueue

\* try_pop line 98: return true (the lock_guard releases the mutex); the
\* consumer records the task it was given and calls try_pop again.
TryPopReturn(c) ==
    /\ qpc[c] = "return"
    /\ m_mutex' = Unlocked
    /\ got' = [got EXCEPT ![c] = Append(got[c], value[c])]
    /\ qpc' = [qpc EXCEPT ![c] = "call"]
    /\ UNCHANGED <<m_queue, numConsumers, pushed, started, value>>
    /\ UNCHANGED notQueue

NextQueue ==
    \/ Push
    \/ StartConsumers
    \/ \E c \in Consumers : TryPopLock(c)
    \/ \E c \in Consumers : TryPopEmpty(c)
    \/ \E c \in Consumers : TryPopFront(c)
    \/ \E c \in Consumers : TryPopPop(c)
    \/ \E c \in Consumers : TryPopReturn(c)

SpecQueue == InitQueue /\ [][NextQueue]_vars

\* The class by itself allows push while other threads pop: a producer
\* thread that keeps pushing after the consumers were started.
PushWhileDraining ==
    /\ started
    /\ pushed < MaxTasks
    /\ LockGuard(m_mutex)
    /\ m_queue' = QueuePush(m_queue, pushed + 1)
    /\ pushed' = pushed + 1
    /\ UNCHANGED <<m_mutex, numConsumers, started, qpc, value, got>>
    /\ UNCHANGED notQueue

ConsumerStep(c) ==
    \/ TryPopLock(c)
    \/ TryPopEmpty(c)
    \/ TryPopFront(c)
    \/ TryPopPop(c)
    \/ TryPopReturn(c)

NextQueueAny ==
    \/ Push
    \/ StartConsumers
    \/ PushWhileDraining
    \/ \E c \in Consumers : TryPopLock(c)
    \/ \E c \in Consumers : TryPopEmpty(c)
    \/ \E c \in Consumers : TryPopFront(c)
    \/ \E c \in Consumers : TryPopPop(c)
    \/ \E c \in Consumers : TryPopReturn(c)

\* Any sequence of pushes and pops.
SpecQueueAny == InitQueue /\ [][NextQueueAny]_vars

\* The same with every consumer thread scheduled fairly; the producer may
\* stop pushing at any time.
SpecQueueAnyFair ==
    /\ InitQueue
    /\ [][NextQueueAny]_vars
    /\ \A c \in Consumers : WF_vars(ConsumerStep(c))

\* ------------------------------------------------------------------------
\* C1: every task pushed before the consumers start is returned by exactly
\* one successful try_pop, under every interleaving of the M consumers: a
\* task is never returned twice (neither to one consumer nor to two), only
\* pushed tasks are returned, and once every consumer has seen "empty" every
\* pushed task has been returned.
\* ------------------------------------------------------------------------
Returns == {<<c, i>> : c \in Consumers, i \in 1..MaxTasks + 1}

ReturnsMade == {r \in Returns : r[2] <= Len(got[r[1]])}

QueueDrained == started /\ \A c \in 1..numConsumers : qpc[c] = "done"

QueueSoundness ==
    /\ \A r1, r2 \in ReturnsMade :
          got[r1[1]][r1[2]] = got[r2[1]][r2[2]] => r1 = r2
    /\ \A r \in ReturnsMade : got[r[1]][r[2]] \in 1..pushed
    /\ QueueDrained => \A t \in 1..pushed : \E r \in ReturnsMade : got[r[1]][r[2]] = t

QueueSoundnessWitness ==
    /\ QueueDrained
    /\ pushed = MaxTasks
    /\ \E c1, c2 \in 1..numConsumers : c1 # c2 /\ got[c1] # <<>> /\ got[c2] # <<>>

\* ========================================================================
\* Download stage (NexusMods.cpp 263-322, 397-417; HTTPClient.cpp 73-101)
\* ========================================================================
\* const int retries = 5
retries == 5

\* bool try_pop(T& value) as one step: the mutex makes lines 93-98 atomic
\* with respect to every other push and try_pop of the same queue.
try_pop(q) ==
    IF q = <<>>
    THEN [ok |-> FALSE, queue |-> q]
    ELSE [ok |-> TRUE, value |-> Head(q), queue |-> Tail(q)]

\* What one call of HTTPClient::download_file can meet.  kind says how far
\* the call got: curl_easy_init failed (line 75), the destination could not
\* be opened (line 81), or curl_easy_perform ran (line 94) and returned res
\* after handing the chunks in data to the write callback; http is the
\* status of the response, 0 when there was none.
Outcomes ==
    { [kind |-> "curl_init_failed", res |-> "none", http |-> 0, data |-> <<>>],
      [kind |-> "open_failed", res |-> "none", http |-> 0, data |-> <<>>],
      [kind |-> "performed", res |-> "CURLE_COULDNT_CONNECT", http |-> 0, data |-> <<>>],
      [kind |-> "performed", res |-> "CURLE_PARTIAL_FILE", http |-> 200, data |-> <<"DA">>],
      [kind |-> "performed", res |-> "CURLE_OK", http |-> 200, data |-> <<"DA", "TA">>],
      [kind |-> "performed", res |-> "CURLE_OK", http |-> 404, data |-> <<"Not Found">>] }

\* The download stage as a whole is explored with one failing and one
\* succeeding kind of attempt; the retry loop of a single task with all.
StageOutcomes ==
    {o \in Outcomes : o.res = "CURLE_COULDNT_CONNECT" \/ (o.res = "CURLE_OK" /\ o.http = 200)}

\* The transfer itself succeeded (libcurl's view; the HTTP status apart).
TransportOk(o) == o.kind = "performed" /\ o.res = "CURLE_OK"

\* std::ofstream outFile(output_path, std::ios::binary): opening for output
\* without std::ios::app truncates the file.
OpenAppend(content) == content
OpenOutFile(content) == <<>>

\* WriteStreamCallback: out->write(ptr, totalSize), once per chunk.
RECURSIVE WriteStreamCallback(_, _)
WriteStreamCallback(content, data) ==
    IF data = <<>> THEN content
    ELSE WriteStreamCallback(Append(content, Head(data)), Tail(data))

\* The destination file after download_file met outcome o.
FileAfter(content, o) ==
    IF o.kind = "performed"
    THEN WriteStreamCallback(OpenOutFile(content), o.data)
    ELSE content

\* download_file's return value: false at lines 77 and 84, else
\* `return res == CURLE_OK` (line 100).
download_file(o) == o.kind = "performed" /\ o.res = "CURLE_OK"

\* for (int attempt = 0; attempt < retries; attempt++)
LoopCondOneMore(a) == a <= retries
LoopCond(a) == a < retries

\* The body of the retry loop after download_file returned ok (lines
\* 277-299): return on success, sleep when attempts remain, else report.
RetryBranchNoReturn(ok, a) ==
    IF a < retries - 1 THEN "sleep" ELSE "report_failed"
RetryBranch(ok, a) ==
    IF ok THEN "return"
    ELSE IF a < retries - 1 THEN "sleep" ELSE "report_failed"

\* download_worker after download_file_with_retries returned (it returns
\* void): count the task and pop the next one, whatever the task's outcome.
AfterTaskStopOnFailure(st) == IF st = "Failed" THEN "exit" ELSE "pop"
AfterTask(st) == "pop"

\* download_files at line 397: the queue is built, no worker exists yet.
\* hardware_concurrency() is taken to be at least 1.
DownloadState ==
    /\ download_queue = [i \in 1..numTasks |-> i]
    /\ threads = 0
    /\ dmain = "spawn"
    /\ wpc = [w \in Workers |-> "unstarted"]
    /\ wtask = [w \in Workers |-> 0]
    /\ attempt = [w \in Workers |-> 0]
    /\ progress_counter = 0
    /\ status = [t \in Tasks |-> "Pending"]
    /\ attempts = [t \in Tasks |-> 0]
    /\ waits = [t \in Tasks |-> 0]
    /\ firstOk = [t \in Tasks |-> 0]
    /\ last = [t \in Tasks |-> NoOutcome]
    /\ partialWritten = [t \in Tasks |-> FALSE]
    /\ dslept = [t \in Tasks |-> 0]

\* The whole stage: any number of tasks and workers, fresh destinations.
InitDownload ==
    /\ numTasks \in 0..MaxDownloads
    /\ num_threads \in 1..MaxWorkers
    /\ transport = StageOutcomes
    /\ file = [t \in Tasks |-> <<>>]
    /\ DownloadState
    /\ IdleQueue
    /\ IdleApi
    /\ IdleCheckpoint
    /\ IdleMain
    /\ IdleConsole

\* One task and one worker: the retry loop against every kind of attempt,
\* the destination either absent or left over from an earlier run.
InitRetry ==
    /\ numTasks = 1
    /\ num_threads = 1
    /\ transport = Outcomes
    /\ file \in [Tasks -> {<<>>, <<"stale">>}]
    /\ \A t \in Tasks : t > numTasks => file[t] = <<>>
    /\ DownloadState
    /\ IdleQueue
    /\ IdleApi
    /\ IdleCheckpoint
    /\ IdleMain
    /\ IdleConsole

\* download_files lines 408-410: threads.emplace_back(download_worker, ...);
\* the new thread runs from its creation on.
SpawnWorker ==
    /\ dmain = "spawn"
    /\ threads < num_threads
    /\ threads' = threads + 1
    /\ wpc' = [wpc EXCEPT ![threads + 1] = "pop"]
    /\ UNCHANGED <<download_queue, numTasks, num_threads, dmain, wtask, attempt,
                   progress_counter, file, status, attempts, waits, firstOk, last, transport, partialWritten, dslept>>
    /\ UNCHANGED notDownload

\* download_files: the creation loop ends, the join loop begins.
SpawnDone ==
    /\ dmain = "spawn"
    /\ threads = num_threads
    /\ dmain' = "join"
    /\ UNCHANGED <<download_queue, numTasks, num_threads, threads, wpc, wtask,
                   attempt, progress_counter, file, status, attempts, waits,
                   firstOk, last, transport, partialWritten, dslept>>
    /\ UNCHANGED notDownload

\* download_files lines 412-416: every worker has returned.
JoinWorkers ==
    /\ dmain = "join"
    /\ \A w \in 1..num_threads : wpc[w] = "exit"
    /\ dmain' = "done"
    /\ UNCHANGED <<download_queue, numTasks, num_threads, threads, wpc, wtask,
                   attempt, progress_counter, file, status, attempts, waits,
                   firstOk, last, transport, partialWritten, dslept>>
    /\ UNCHANGED notDownload

\* download_worker line 314 with a task in the queue: the task enters
\* download_file_with_retries, whose loop starts at attempt 0.
PopTask(w) ==
    /\ wpc[w] = "pop"
    /\ try_pop(download_queue).ok
    /\ LET t == try_pop(download_queue).value IN
          /\ wtask' = [wtask EXCEPT ![w] = t]
          /\ attempt' = [attempt EXCEPT ![w] = 0]
          /\ status' = [status EXCEPT ![t] = IF LoopCond(0) THEN "Attempting" ELSE "Failed"]
          /\ wpc' = [wpc EXCEPT ![w] = IF LoopCond(0) THEN "attempt" ELSE "progress"]
    /\ download_queue' = try_pop(download_queue).queue
    /\ UNCHANGED <<numTasks, num_threads, threads, dmain, progress_counter, file,
                   attempts, waits, firstOk, last, transport, partialWritten, dslept>>

\* download_worker line 314 with the queue empty: the worker returns.
PopNone(w) ==
    /\ wpc[w] = "pop"
    /\ ~try_pop(download_queue).ok
    /\ wpc' = [wpc EXCEPT ![w] = "exit"]
    /\ UNCHANGED <<download_queue, numTasks, num_threads, threads, dmain, wtask,
                   attempt, progress_counter, file, status, attempts, waits,
                   firstOk, last, transport, partialWritten, dslept>>

\* try_pop as one step: the queue's mutex makes it atomic to every other
\* thread.
WorkerPop(w) == PopTask(w) /\ UNCHANGED notDownload

WorkerExit(w) == PopNone(w) /\ UNCHANGED notDownload

\* The slot of `file` that holds task t's destination: tasks built from a
\* checkpoint share a slot when their file_path is the same path; without
\* a checkpoint every task has a destination of its own.
Dest(t) ==
    IF t \in 1..Len(parsed)
    THEN CHOOSE i \in 1..Len(parsed) :
             /\ parsed[i].file_path = parsed[t].file_path
             /\ \A j \in 1..Len(parsed) :
                    parsed[j].file_path = parsed[t].file_path => i <= j
    ELSE t

\* Outcome o as the server of task t's URL produces it: the body of a
\* response is the resource found at that URL.
Served(t, o) ==
    IF t \in 1..Len(parsed) /\ o.data # <<>>
    THEN [o EXCEPT !.data = <<parsed[t].url>>]
    ELSE o

\* One iteration of the retry loop up to its sleep (lines 270-299): call
\* download_file, then return, go to sleep, or report and leave the loop.
Attempt(w) ==
    /\ wpc[w] = "attempt"
    /\ \E met \in transport :
        LET t == wtask[w]
            o == Served(t, met)
            ok == download_file(o)
            branch == RetryBranch(ok, attempt[w])
            more == LoopCond(attempt[w] + 1)
        IN
          /\ file' = [file EXCEPT ![Dest(t)] = FileAfter(file[Dest(t)], o)]
          /\ attempts' = [attempts EXCEPT ![t] = attempts[t] + 1]
          /\ last' = [last EXCEPT ![t] = o]
          /\ partialWritten' = [partialWritten EXCEPT ![t] =
                partialWritten[t] \/ (~TransportOk(o) /\ o.data # <<>>)]
          /\ firstOk' = [firstOk EXCEPT ![t] =
                IF firstOk[t] = 0 /\ TransportOk(o) THEN attempts[t] + 1 ELSE firstOk[t]]
          /\ CASE branch = "return" ->
                    /\ status' = [status EXCEPT ![t] = "Succeeded"]
                    /\ wpc' = [wpc EXCEPT ![w] = "progress"]
                    /\ UNCHANGED attempt
               [] branch = "sleep" ->
                    /\ wpc' = [wpc EXCEPT ![w] = "backoff"]
                    /\ UNCHANGED <<status, attempt>>
               [] branch = "report_failed" ->
                    /\ attempt' = [attempt EXCEPT ![w] = attempt[w] + 1]
                    /\ status' = [status EXCEPT ![t] = IF more THEN "Attempting" ELSE "Failed"]
                    /\ wpc' = [wpc EXCEPT ![w] = IF more THEN "attempt" ELSE "progress"]
    /\ UNCHANGED <<download_queue, numTasks, num_threads, threads, dmain, wtask,
                   progress_counter, waits, transport, dslept>>
    /\ UNCHANGED notDownload

\* Line 292: std::chrono::seconds(5).
BackoffSeconds == 5

\* The time slept before the attempt that follows failed attempt number
\* a (0-based): the same literal for every a.
BackoffGrowing(a) == BackoffSeconds * (a + 1)
BackoffDelay(a) == BackoffSeconds

\* Line 292: std::this_thread::sleep_for(std::chrono::seconds(5)), then
\* attempt++ and the loop condition.
Backoff(w) ==
    /\ wpc[w] = "backoff"
    /\ LET t == wtask[w]
           more == LoopCond(attempt[w] + 1)
       IN
          /\ waits' = [waits EXCEPT ![t] = waits[t] + 1]
          /\ dslept' = [dslept EXCEPT ![t] = dslept[t] + BackoffDelay(attempt[w])]
          /\ attempt' = [attempt EXCEPT ![w] = attempt[w] + 1]
          /\ status' = [status EXCEPT ![t] = IF more THEN "Attempting" ELSE "Failed"]
          /\ wpc' = [wpc EXCEPT ![w] = IF more THEN "attempt" ELSE "progress"]
    /\ UNCHANGED <<download_queue, numTasks, num_threads, threads, dmain, wtask,
                   progress_counter, file, attempts, firstOk, last, transport, partialWritten>>
    /\ UNCHANGED notDownload

\* download_worker line 316: int completed = ++progress_counter, one atomic
\* read-modify-write.
NoIncrement(c) == c
PreIncrement(c) == c + 1

\* download_worker lines 316-320: ++progress_counter and the progress line.
Progress(w) ==
    /\ wpc[w] = "progress"
    /\ progress_counter' = PreIncrement(progress_counter)
    /\ wpc' = [wpc EXCEPT ![w] = AfterTask(status[wtask[w]])]
    /\ UNCHANGED <<download_queue, numTasks, num_threads, threads, dmain, wtask,
                   attempt, file, status, attempts, waits, firstOk, last, transport, partialWritten, dslept>>
    /\ UNCHANGED notDownload

WorkerStep(w) ==
    \/ WorkerPop(w)
    \/ WorkerExit(w)
    \/ Attempt(w)
    \/ Backoff(w)
    \/ Progress(w)

MainStep == SpawnWorker \/ SpawnDone \/ JoinWorkers

NextDownload ==
    \/ SpawnWorker
    \/ SpawnDone
    \/ JoinWorkers
    \/ \E w \in Workers : WorkerPop(w)
    \/ \E w \in Workers : WorkerExit(w)
    \/ \E w \in Workers : Attempt(w)
    \/ \E w \in Workers : Backoff(w)
    \/ \E w \in Workers : Progress(w)

SpecDownload == InitDownload /\ [][NextDownload]_vars

SpecRetry == InitRetry /\ [][NextDownload]_vars

\* Every thread that can take a step is eventually scheduled, and every
\* network call and sleep returns.
SpecDownloadFair ==
    /\ InitDownload
    /\ [][NextDownload]_vars
    /\ WF_vars(MainStep)
    /\ \A w \in Workers : WF_vars(WorkerStep(w))

Final == {"Succeeded", "Failed"}
Queued == 1..numTasks


\* ------------------------------------------------------------------------
\* C2: a task whose transfer fails on every attempt is attempted exactly
\* `retries` (5) times and then is Failed: no task is ever attempted more
\* than 5 times, a task that has left the retry loop without a successful
\* transfer is Failed after exactly 5 attempts, and a Failed task stays
\* Failed and is never attempted again.
\* ------------------------------------------------------------------------
FailsAfterFiveInv ==
    \A t \in Queued :
        /\ attempts[t] <= retries
        /\ (status[t] \in Final /\ firstOk[t] = 0) =>
               (status[t] = "Failed" /\ attempts[t] = retries)
        /\ status[t] = "Failed" => (attempts[t] = retries /\ firstOk[t] = 0)

FailedIsTerminal ==
    \A t \in Queued :
        status[t] = "Failed" => (status'[t] = "Failed" /\ attempts'[t] = attempts[t])

AlwaysFailingAttemptedFiveTimes == []FailsAfterFiveInv /\ [][FailedIsTerminal]_vars

AlwaysFailingWitness ==
    /\ dmain = "done"
    /\ \E t \in Queued : status[t] = "Failed" /\ attempts[t] = retries /\ waits[t] = retries - 1

\* ------------------------------------------------------------------------
\* C3: a task whose transfer first succeeds on attempt k (1 <= k <= 5) is
\* Succeeded after exactly k attempts and k-1 backoff waits: from the
\* successful attempt on there is no further attempt and no further wait.
\* ------------------------------------------------------------------------
SucceedsAtFirstSuccess ==
    \A t \in Queued :
        firstOk[t] # 0 =>
            /\ status[t] = "Succeeded"
            /\ firstOk[t] \in 1..retries
            /\ attempts[t] = firstOk[t]
            /\ waits[t] = firstOk[t] - 1

SucceedsAtFirstSuccessWitness ==
    /\ dmain = "done"
    /\ \E t \in Queued : firstOk[t] = 3 /\ status[t] = "Succeeded"

\* ------------------------------------------------------------------------
\* C4: every attempt that reaches the transfer starts from an empty
\* destination file, so the file holds exactly what the latest transfer
\* delivered; in particular a Succeeded task's file is exactly the body of
\* its successful attempt, whatever earlier attempts or earlier runs left.
\* ------------------------------------------------------------------------
FileIsLatestBody ==
    \A t \in Queued :
        /\ last[t].kind = "performed" => file[t] = last[t].data
        /\ status[t] = "Succeeded" => file[t] = last[t].data

FileIsLatestBodyWitness ==
    \E t \in Queued :
        /\ status[t] = "Succeeded"
        /\ firstOk[t] = 3
        /\ partialWritten[t]
        /\ file[t] = <<"DA", "TA">>

\* ------------------------------------------------------------------------
\* C5: an attempt counts as a success only when the transfer succeeded and
\* the HTTP status is 200: a task is Succeeded only if its last attempt got
\* status 200, and a transfer that completes with another status leaves the
\* task to be retried while attempts remain.
\* ------------------------------------------------------------------------
SuccessRequiresStatus200 ==
    \A t \in Queued :
        /\ status[t] = "Succeeded" => last[t].http = 200
        /\ (TransportOk(last[t]) /\ last[t].http # 200 /\ attempts[t] < retries) =>
               status[t] = "Attempting"

\* ------------------------------------------------------------------------
\* C6: a Failed task never stops the batch: whatever tasks fail, every
\* worker keeps popping until the queue is empty, so eventually the stage
\* is over with every queued task Succeeded or Failed.
\* ------------------------------------------------------------------------
BatchOver == dmain = "done" /\ \A t \in Queued : status[t] \in Final

ModIds == {5, 6}
FileIds == {100, 101}

SeqsUpTo(S, n) == UNION {[1..k -> S] : k \in 0..n}

\* An http_get response as the work functions read it: the status code and
\* the JSON body.  json is "invalid" (json::parse throws), "object_no_key"
\* (an object without the expected key), "object_files" (an object whose
\* "files" holds items) or "array" (a top-level array of items).  An item
\* has the key the stage looks for ("file_id" / "URI") or not, and the
\* value under it is an integer, a string, or of another JSON type.
Item(has, type, num, str) == [has |-> has, type |-> type, num |-> num, str |-> str]
IntItem(n) == Item(TRUE, "int", n, "")
StrItem(u) == Item(TRUE, "string", 0, u)
NoKeyItem == Item(FALSE, "none", 0, "")
Response(st, js, items) == [status |-> st, json |-> js, items |-> items]

FileResponses ==
    { Response(200, "object_files", <<IntItem(100)>>),
      Response(200, "object_files", <<>>),
      Response(200, "object_files", <<NoKeyItem, IntItem(101)>>),
      Response(200, "object_files", <<IntItem(100), StrItem("x")>>),
      Response(200, "invalid", <<>>),
      Response(200, "object_no_key", <<>>),
      Response(404, "object_files", <<IntItem(100)>>) }

LinkResponses ==
    { Response(200, "array", <<StrItem("http://x/a.zip")>>),
      Response(200, "array", <<StrItem("http://x/b.zip")>>),
      Response(200, "array", <<StrItem("")>>),
      Response(200, "array", <<NoKeyItem>>),
      Response(200, "array", <<IntItem(7)>>),
      Response(404, "array", <<StrItem("http://x/a.zip")>>) }

Responses(st) == IF st = "files" THEN FileResponses ELSE LinkResponses

\* get_file_ids lines 142-146: collect file_id of every item that has one;
\* get<int>() throws on a value that is not a number.
RECURSIVE CollectFileIds(_)
CollectFileIds(items) ==
    IF items = <<>> THEN [threw |-> FALSE, ids |-> <<>>]
    ELSE LET h == Head(items)
             rest == CollectFileIds(Tail(items))
         IN  IF h.has /\ h.type # "int" THEN [threw |-> TRUE, ids |-> <<>>]
             ELSE IF rest.threw THEN rest
             ELSE [threw |-> FALSE, ids |-> IF h.has THEN <<h.num>> \o rest.ids ELSE rest.ids]

\* get_file_ids' work_function (lines 133-154): the Result for mod_id.
FilesWorkAnyStatus(mod_id, r) ==
    IF r.json = "object_files" /\ ~CollectFileIds(r.items).threw
    THEN <<mod_id, CollectFileIds(r.items).ids>>
    ELSE <<mod_id, <<>>>>
FilesWork(mod_id, r) ==
    IF r.status = 200 /\ r.json = "object_files" /\ ~CollectFileIds(r.items).threw
    THEN <<mod_id, CollectFileIds(r.items).ids>>
    ELSE <<mod_id, <<>>>>

\* generate_download_links' work_function (lines 192-210): the Result for
\* task; get<std::string>() throws on a value that is not a string.
LinksWork(task, r) ==
    IF /\ r.status = 200
       /\ r.json = "array"
       /\ r.items # <<>>
       /\ r.items[1].has
       /\ r.items[1].type = "string"
    THEN <<task, r.items[1].str>>
    ELSE <<task, "">>

work_function(st, task, r) == IF st = "files" THEN FilesWork(task, r) ELSE LinksWork(task, r)

\* The keys of a std::map in iteration order (ascending).
RECURSIVE Ascending(_)
Ascending(S) ==
    IF S = {} THEN <<>>
    ELSE LET m == CHOOSE x \in S : \A y \in S : x <= y
         IN  <<m>> \o Ascending(S \ {m})

\* generate_download_links lines 184-189: one task per (mod_id, file_id),
\* mod_ids ascending, file_ids in the order of each vector.
RECURSIVE FlattenKeys(_, _)
FlattenKeys(m, keys) ==
    IF keys = <<>> THEN <<>>
    ELSE [i \in 1..Len(m[Head(keys)]) |-> <<Head(keys), m[Head(keys)][i]>>]
            \o FlattenKeys(m, Tail(keys))

Flatten(m) == FlattenKeys(m, Ascending(DOMAIN m))

FilesInputs == SeqsUpTo(ModIds, MaxApiTasks)

LinksInputs ==
    {m \in UNION {[D -> SeqsUpTo(FileIds, MaxApiTasks)] : D \in SUBSET ModIds} :
        Len(Flatten(m)) <= MaxApiTasks}

\* std::min((unsigned int)total_tasks, std::thread::hardware_concurrency())
NumThreadsHardware(total, hc) == hc
NumThreads(total, hc) == Min(total, hc)

\* m[k] = v on a std::map.
MapAssign(m, k, v) == [x \in DOMAIN m \cup {k} |-> IF x = k THEN v ELSE m[x]]

\* get_file_ids line 167 keeps every result.
KeepOnlyNonEmpty(v) == v # <<>>
KeepFiles(v) == TRUE

\* generate_download_links line 223: if (!result.second.empty()).
KeepAll(v) == TRUE
KeepLink(v) == v # ""

\* One iteration of the drain loop (lines 166-168 / 222-226).
Collect(st, m, result) ==
    IF (st = "files" /\ KeepFiles(result[2])) \/ (st = "links" /\ KeepLink(result[2]))
    THEN MapAssign(m, result[1], result[2])
    ELSE m

\* for (auto& t : threads) t.join(): returns once every worker has returned.
JoinSkipped(n) == TRUE
AllJoined(n) == \A w \in 1..n : apc[w] = "exit"

\* The state when the worker threads are about to be created (line 156 /
\* 212): the task queue is filled.  hardware_concurrency() is taken to be
\* at least 1.
ApiState ==
    /\ task_queue = [i \in 1..Len(tasksIn) |-> i]
    /\ result_queue = <<>>
    /\ hw \in 1..MaxWorkers
    /\ athreads = 0
    /\ amain = "spawn"
    /\ apc = [w \in Workers |-> "unstarted"]
    /\ atask = [w \in Workers |-> 0]
    /\ out = <<>>
    /\ calls = [i \in Entries |-> 0]
    /\ resp = [i \in Entries |-> NoResponse]
    /\ pushLog = <<>>
    /\ napped = 0

InitApi ==
    /\ \/ stage = "files" /\ input \in FilesInputs /\ tasksIn = input
       \/ stage = "links" /\ input \in LinksInputs /\ tasksIn = Flatten(input)
    /\ ApiState
    /\ IdleQueue
    /\ IdleDownload
    /\ IdleCheckpoint
    /\ IdleMain
    /\ IdleConsole

\* threads.emplace_back(api_worker<Task, Result>, ...), lines 158-160 / 214-216.
ApiSpawn ==
    /\ amain = "spawn"
    /\ athreads < NumThreads(Len(tasksIn), hw)
    /\ athreads' = athreads + 1
    /\ apc' = [apc EXCEPT ![athreads + 1] = "pop"]
    /\ UNCHANGED <<stage, input, tasksIn, task_queue, result_queue, hw, amain,
                   atask, out, calls, resp, pushLog, napped>>
    /\ UNCHANGED notApi

\* Lines 162 / 218: every thread has been created and every join has
\* returned.
ApiJoin ==
    /\ amain = "spawn"
    /\ athreads = NumThreads(Len(tasksIn), hw)
    /\ AllJoined(athreads)
    /\ amain' = "drain"
    /\ UNCHANGED <<stage, input, tasksIn, task_queue, result_queue, hw, athreads,
                   apc, atask, out, calls, resp, pushLog, napped>>
    /\ UNCHANGED notApi

\* The drain loop takes one result (lines 166-168 / 222-226).
ApiDrain ==
    /\ amain = "drain"
    /\ try_pop(result_queue).ok
    /\ out' = Collect(stage, out, try_pop(result_queue).value)
    /\ result_queue' = try_pop(result_queue).queue
    /\ UNCHANGED <<stage, input, tasksIn, task_queue, hw, athreads, amain, apc,
                   atask, calls, resp, pushLog, napped>>
    /\ UNCHANGED notApi

\* The drain loop finds the result queue empty; the map is returned.
ApiReturn ==
    /\ amain = "drain"
    /\ ~try_pop(result_queue).ok
    /\ amain' = "done"
    /\ UNCHANGED <<stage, input, tasksIn, task_queue, result_queue, hw, athreads,
                   apc, atask, out, calls, resp, pushLog, napped>>
    /\ UNCHANGED notApi

\* api_worker line 112 with a task in the queue.
ApiPopTask(w) ==
    /\ apc[w] = "pop"
    /\ try_pop(task_queue).ok
    /\ atask' = [atask EXCEPT ![w] = try_pop(task_queue).value]
    /\ task_queue' = try_pop(task_queue).queue
    /\ apc' = [apc EXCEPT ![w] = "work"]
    /\ UNCHANGED <<stage, input, tasksIn, result_queue, hw, athreads, amain,
                   out, calls, resp, pushLog, napped>>

\* api_worker line 112 with the task queue empty: the worker returns.
ApiPopNone(w) ==
    /\ apc[w] = "pop"
    /\ ~try_pop(task_queue).ok
    /\ apc' = [apc EXCEPT ![w] = "exit"]
    /\ UNCHANGED <<stage, input, tasksIn, task_queue, result_queue, hw, athreads,
                   amain, atask, out, calls, resp, pushLog, napped>>

\* try_pop as one step: the queue's mutex makes it atomic to every other
\* thread.
ApiPop(w) == ApiPopTask(w) /\ UNCHANGED notApi

ApiExit(w) == ApiPopNone(w) /\ UNCHANGED notApi

\* api_worker line 115: std::chrono::seconds(1).
RateLimitSeconds == 1

\* api_worker line 115: std::this_thread::sleep_for(std::chrono::seconds(1))
\* adds that long to the time the worker has slept.
NoSleepFor(t) == t
SleepFor(t) == t + RateLimitSeconds

\* api_worker lines 113-115: result_queue.push(work_function(task)), then
\* the one-second sleep.  work_function makes one http_get, whose response
\* the API chooses; the call and the sleep touch nothing shared, so they
\* are one step with the push.
ApiWork(w) ==
    /\ apc[w] = "work"
    /\ \E r \in Responses(stage) :
          /\ result_queue' = QueuePush(result_queue, work_function(stage, tasksIn[atask[w]], r))
          /\ resp' = [resp EXCEPT ![atask[w]] = r]
    /\ calls' = [calls EXCEPT ![atask[w]] = calls[atask[w]] + 1]
    /\ pushLog' = Append(pushLog, atask[w])
    /\ napped' = SleepFor(napped)
    /\ atask' = [atask EXCEPT ![w] = 0]      \* not read again before the next pop
    /\ apc' = [apc EXCEPT ![w] = "pop"]
    /\ UNCHANGED <<stage, input, tasksIn, task_queue, hw, athreads, amain, out>>
    /\ UNCHANGED notApi

NextApi ==
    \/ ApiSpawn
    \/ ApiJoin
    \/ ApiDrain
    \/ ApiReturn
    \/ \E w \in Workers : ApiPop(w)
    \/ \E w \in Workers : ApiExit(w)
    \/ \E w \in Workers : ApiWork(w)

SpecApi == InitApi /\ [][NextApi]_vars

Enqueued == 1..Len(tasksIn)

\* What the API returned for a task, read off the response alone: the
\* file ids of a well-formed 200 response (items without a file_id are not
\* file descriptors), and no data for anything else.
WellFormedFiles(r) ==
    /\ r.status = 200
    /\ r.json = "object_files"
    /\ \A i \in 1..Len(r.items) : r.items[i].has => r.items[i].type = "int"

HasFileId(item) == item.has

ReturnedFileIds(r) ==
    IF WellFormedFiles(r)
    THEN LET withId == SelectSeq(r.items, HasFileId)
         IN  [i \in 1..Len(withId) |-> withId[i].num]
    ELSE <<>>

\* The URL the API returned for a LinkTask: the string under "URI" of the
\* first element of a 200 response, and none ("") for anything else.
ReturnedUrl(r) ==
    IF r.status = 200 /\ r.json = "array" /\ Len(r.items) >= 1
    THEN LET first == r.items[1]
         IN  IF first.has /\ first.type = "string" THEN first.str ELSE ""
    ELSE ""

ApiDone(st) == stage = st /\ amain = "done"

Deterministic ==
    \A i, j \in Enqueued : (calls[i] > 0 /\ calls[j] > 0 /\ tasksIn[i] = tasksIn[j]) => resp[i] = resp[j]

\* The response the API gives for a task, once it has been asked.
ApiOf(task) ==
    IF \E i \in Enqueued : tasksIn[i] = task /\ calls[i] > 0
    THEN resp[CHOOSE i \in Enqueued : tasksIn[i] = task /\ calls[i] > 0]
    ELSE NoResponse

\* generate_download_links with one worker: the tasks are popped, resolved
\* and pushed in queue order, and drained in that order.
RECURSIVE PoolOfOne(_, _)
PoolOfOne(i, m) ==
    IF i > Len(tasksIn) THEN m
    ELSE PoolOfOne(i + 1, Collect("links", m, LinksWork(tasksIn[i], ApiOf(tasksIn[i]))))

PoolSizeKeepsKeys ==
    (ApiDone("links") /\ Deterministic) => DOMAIN out = DOMAIN PoolOfOne(1, <<>>)

PoolSizeKeepsKeysWitness ==
    /\ ApiDone("links")
    /\ Deterministic
    /\ athreads >= 2
    /\ \E a, b \in 1..Len(pushLog) : a < b /\ pushLog[a] > pushLog[b]
    /\ DOMAIN out # {}
    /\ \E i \in Enqueued : tasksIn[i] \notin DOMAIN out

\* ========================================================================
\* The checkpoint file: save_download_links (NexusMods.cpp 233-257) writes
\* base/domain/download_links.txt and download_files (329-395) reads it
\* back and builds the DownloadTasks.  Strings are sequences of one-character
\* strings, so that formatting, line splitting and parsing are computed
\* character by character as the streams do.
\* ========================================================================

BaseDir == "base_dir"
Domain == "game_domain"

\* The map keys (mod_id, file_id) and the URLs a run is started with.  The
\* map is generate_download_links' result, so no URL is empty (line 223);
\* URLs hold no newline, and every other character the parser treats
\* specially (',', '/', '?') is enumerated.
LinkKeys == {<<10, 20>>, <<10, 21>>, <<-3, 0>>}
UrlAlphabet == {"a", "/", "?", ","}
UrlA == <<"h", "t", "t", "p", ":", "/", "/", "x", "/", "a", ".", "z", "i", "p">>
UrlB == <<"h", "t", "t", "p", ":", "/", "/", "x", "/", "b", ".", "z", "i", "p", "?", "k", "=", "1", ",", "2">>
UrlSigned == <<"h", "t", "t", "p", ":", "/", "/", "x", "/", "c", ".", "z", "i", "p", "?", "m", "d", "5", "=", "q", "/", "w">>
ExampleUrls == {UrlA, UrlB}
Urls == (SeqsUpTo(UrlAlphabet, MaxUrlLen) \ {<<>>}) \cup ExampleUrls \cup {UrlSigned}
\* The link maps of up to MaxRecords entries: one entry carries any of the
\* enumerated URLs, its neighbours one of the two example URLs.
MapsOn(K) ==
    [K -> ExampleUrls]
        \cup {[e EXCEPT ![k] = u] : e \in [K -> ExampleUrls], k \in K, u \in Urls}
LinkMaps ==
    UNION {MapsOn(K) : K \in {S \in SUBSET LinkKeys : Cardinality(S) <= MaxRecords}}

\* A download_links.txt left by an earlier run.
StaleCheckpoint == <<"7", ",", "1", ",", "/", "s">> \o <<"\n">>

\* A download_links.txt with a line of two fields, and one whose identifier
\* is not a number, each between two well-formed lines.
ShortLineCheckpoint == <<"7", ",", "1", ",", "/", "s", "\n", "7", ",", "2", "\n", "8", ",", "3", ",", "/", "t", "\n">>
NotANumberCheckpoint == <<"7", ",", "1", ",", "/", "s", "\n", "x", ",", "2", ",", "/", "u", "\n", "8", ",", "3", ",", "/", "t", "\n">>
ExistingCheckpoints == {StaleCheckpoint, ShortLineCheckpoint, NotANumberCheckpoint}

\* operator<<(int): decimal digits, '-' first for a negative value.
DigitChars == <<"0", "1", "2", "3", "4", "5", "6", "7", "8", "9">>

RECURSIVE NatToStr(_)
NatToStr(n) ==
    IF n < 10 THEN <<DigitChars[n + 1]>>
    ELSE NatToStr(n \div 10) \o <<DigitChars[(n % 10) + 1]>>

IntToStr(n) == IF n < 0 THEN <<"-">> \o NatToStr(0 - n) ELSE NatToStr(n)

\* std::map<std::pair<int,int>, ...> iterates in operator< order of the
\* pairs: by first, then by second.
PairLess(a, b) == a[1] < b[1] \/ (a[1] = b[1] /\ a[2] < b[2])

RECURSIVE ReverseOrder(_)
ReverseOrder(K) ==
    IF K = {} THEN <<>>
    ELSE LET k == CHOOSE x \in K : \A y \in K \ {x} : PairLess(y, x)
         IN  <<k>> \o ReverseOrder(K \ {k})

RECURSIVE MapOrder(_)
MapOrder(K) ==
    IF K = {} THEN <<>>
    ELSE LET k == CHOOSE x \in K : \A y \in K \ {x} : PairLess(x, y)
         IN  <<k>> \o MapOrder(K \ {k})

\* Line 252: ofs << mod_id << "," << file_id << "," << url << "\n".
FormatRecord(k, url) ==
    IntToStr(k[1]) \o <<",">> \o IntToStr(k[2]) \o <<",">> \o url \o <<"\n">>

RECURSIVE FormatRecords(_, _)
FormatRecords(m, order) ==
    IF order = <<>> THEN <<>>
    ELSE FormatRecord(Head(order), m[Head(order)]) \o FormatRecords(m, Tail(order))

FormatLinks(m) == FormatRecords(m, MapOrder(DOMAIN m))

\* std::string::find / rfind as 1-based positions, 0 for npos.
RECURSIVE FindFrom(_, _, _)
FindFrom(str, c, i) ==
    IF i > Len(str) THEN 0
    ELSE IF str[i] = c THEN i
    ELSE FindFrom(str, c, i + 1)

RECURSIVE RFindFrom(_, _, _)
RFindFrom(str, c, i) ==
    IF i < 1 THEN 0
    ELSE IF str[i] = c THEN i
    ELSE RFindFrom(str, c, i - 1)

Find(str, c) == FindFrom(str, c, 1)
RFind(str, c) == RFindFrom(str, c, Len(str))

\* std::getline(stream, field, delim) on a stream whose unread part is
\* rest: it fails when nothing is left to read; otherwise it extracts up to
\* the delimiter (consumed, not stored) or to the end of the stream.
Getline(rest, delim) ==
    IF rest = <<>> THEN [ok |-> FALSE, field |-> <<>>, rest |-> <<>>]
    ELSE LET p == Find(rest, delim)
         IN  IF p = 0
             THEN [ok |-> TRUE, field |-> rest, rest |-> <<>>]
             ELSE [ok |-> TRUE, field |-> SubSeq(rest, 1, p - 1),
                   rest |-> SubSeq(rest, p + 1, Len(rest))]

\* Lines 341-348: every non-empty line of the file.
RECURSIVE ReadLines(_)
ReadLines(data) ==
    LET g == Getline(data, "\n")
    IN  IF ~g.ok THEN <<>>
        ELSE (IF g.field # <<>> THEN <<g.field>> ELSE <<>>) \o ReadLines(g.rest)

\* std::stoi: leading whitespace is skipped, then an optional sign and the
\* longest run of digits; std::invalid_argument (ok = FALSE) without a digit.
RECURSIVE SkipSpace(_)
SkipSpace(str) ==
    IF str # <<>> /\ Head(str) = " " THEN SkipSpace(Tail(str)) ELSE str

IsDigit(c) == \E d \in 1..10 : DigitChars[d] = c
DigitValue(c) == (CHOOSE d \in 1..10 : DigitChars[d] = c) - 1

RECURSIVE ParseDigits(_, _)
ParseDigits(str, acc) ==
    IF str = <<>> \/ ~IsDigit(Head(str)) THEN acc
    ELSE ParseDigits(Tail(str), acc * 10 + DigitValue(Head(str)))

StoI(str) ==
    LET s1 == SkipSpace(str)
        signed == s1 # <<>> /\ Head(s1) \in {"-", "+"}
        s2 == IF signed THEN Tail(s1) ELSE s1
    IN  IF s2 = <<>> \/ ~IsDigit(Head(s2))
        THEN [ok |-> FALSE, value |-> 0]
        ELSE [ok |-> TRUE,
              value |-> IF signed /\ Head(s1) = "-"
                        THEN 0 - ParseDigits(s2, 0)
                        ELSE ParseDigits(s2, 0)]

\* Line 361, third call: std::getline(ss, url) reads the rest of the line.
GetUrl(rest) == Getline(rest, "\n")

\* Lines 365-382: the file name of a URL.
FallbackName(mod_id, file_id) ==
    <<"m", "o", "d", "_">> \o IntToStr(mod_id) \o <<"_", "f", "i", "l", "e", "_">>
        \o IntToStr(file_id) \o <<".", "z", "i", "p">>

Filename(url, mod_id, file_id) ==
    LET pos == RFind(url, "/")
        afterSlash == IF pos # 0 /\ pos < Len(url)
                      THEN SubSeq(url, pos + 1, Len(url))
                      ELSE <<>>
        q == Find(afterSlash, "?")
        cut == IF q # 0 THEN SubSeq(afterSlash, 1, q - 1) ELSE afterSlash
    IN  IF cut = <<>> THEN FallbackName(mod_id, file_id) ELSE cut

\* Lines 385-386: base_directory / std::to_string(mod_id).
ModDirectory(mod_id) == <<BaseDir, Domain, IntToStr(mod_id)>>

\* Lines 359-393, one iteration: "skip" when one of the three getline calls
\* fails, "throw" when std::stoi throws std::invalid_argument (nothing
\* catches it in download_files), otherwise the DownloadTask that is pushed.
ParseLine(line) ==
    LET g1 == Getline(line, ",")
        g2 == Getline(g1.rest, ",")
        g3 == GetUrl(g2.rest)
        m == StoI(g1.field)
        f == StoI(g2.field)
    IN  IF ~(g1.ok /\ g2.ok /\ g3.ok) THEN [kind |-> "skip"]
        ELSE IF ~m.ok \/ ~f.ok THEN [kind |-> "throw"]
        ELSE [kind |-> "task",
              task |-> [url |-> g3.field,
                        file_path |-> Append(ModDirectory(m.value),
                                             Filename(g3.field, m.value, f.value)),
                        mod_id |-> m.value,
                        file_id |-> f.value]]

CheckpointState ==
    /\ links \in LinkMaps
    /\ ckExists \in BOOLEAN
    /\ ckData \in (IF ckExists THEN ExistingCheckpoints ELSE {<<>>})
    /\ saved = FALSE
    /\ cpc = "save"
    /\ lines = <<>>
    /\ li = 0
    /\ parsed = <<>>
    /\ dirs = {}
    /\ run = 1
    /\ firstRun = <<>>

InitCheckpoint == CheckpointState /\ IdleQueue /\ IdleDownload /\ IdleApi /\ IdleMain /\ IdleConsole

\* Line 242: std::ofstream ofs(path) opens with std::ios::out alone, which
\* truncates an existing file.
OpenCheckpointAppend(content) == content
OpenCheckpoint(content) == <<>>

\* save_download_links, lines 236-256: the directory is created, the file is
\* opened (std::ofstream truncates) and every entry is written in map order.
SaveDownloadLinks ==
    /\ cpc = "save"
    /\ dirs' = dirs \cup {<<BaseDir, Domain>>}
    /\ ckExists' = TRUE
    /\ ckData' = OpenCheckpoint(ckData) \o FormatLinks(links)
    /\ saved' = TRUE
    /\ cpc' = "download"
    /\ UNCHANGED <<links, lines, li, parsed, run, firstRun>>
    /\ UNCHANGED notCheckpoint

\* Lines 243-247: the file cannot be opened; the function returns and the
\* caller goes on to download_files (part_002 85-86).
SaveOpenFails ==
    /\ cpc = "save"
    /\ dirs' = dirs \cup {<<BaseDir, Domain>>}
    /\ cpc' = "download"
    /\ UNCHANGED <<links, ckExists, ckData, saved, lines, li, parsed, run, firstRun>>
    /\ UNCHANGED notCheckpoint

\* Line 337: `return;` after the "not found" message.
NotFoundThrows == "runtime_error"
NotFoundReturns == "done"

\* download_files, lines 334-338: no checkpoint file.
DownloadFilesNotFound ==
    /\ cpc = "download"
    /\ ~ckExists
    /\ cpc' = NotFoundReturns
    /\ UNCHANGED <<links, ckExists, ckData, saved, lines, li, parsed, dirs, run, firstRun>>
    /\ UNCHANGED notCheckpoint

\* Lines 341-354: the lines are read; without a line the function returns.
DownloadFilesRead ==
    /\ cpc = "download"
    /\ ckExists
    /\ lines' = ReadLines(ckData)
    /\ li' = 1
    /\ cpc' = (IF lines' = <<>> THEN "done" ELSE "parse")
    /\ UNCHANGED <<links, ckExists, ckData, saved, parsed, dirs, run, firstRun>>
    /\ UNCHANGED notCheckpoint

\* fs::create_directories(mod_directory), line 387: it returns, or throws
\* fs::filesystem_error when the directory cannot be created.
CreateDirectories == {"created", "filesystem_error"}

\* Lines 386-393: create_directories is called before download_queue.push,
\* so the push is reached only when the call has returned.
PushedFirst(mk) == TRUE
CreatedFirst(mk) == mk = "created"

\* Lines 359-395, one iteration of the loop over lines; after the last line
\* the function goes on to start the workers (line 398).  An exception of
\* std::stoi or fs::create_directories leaves the loop and the function.
ParseNext ==
    /\ cpc = "parse"
    /\ li <= Len(lines)
    /\ LET r == ParseLine(lines[li])
       IN  \E mk \in (IF r.kind = "task" THEN CreateDirectories ELSE {"none"}) :
           /\ parsed' = (IF r.kind = "task" /\ CreatedFirst(mk)
                         THEN Append(parsed, r.task)
                         ELSE parsed)
           /\ dirs' = (IF r.kind = "task" /\ mk = "created"
                       THEN dirs \cup {ModDirectory(r.task.mod_id)}
                       ELSE dirs)
           /\ cpc' = (IF r.kind = "throw" THEN "invalid_argument"
                      ELSE IF mk = "filesystem_error" THEN "filesystem_error"
                      ELSE IF li = Len(lines) THEN "workers"
                      ELSE "parse")
    /\ li' = li + 1
    /\ UNCHANGED <<links, ckExists, ckData, saved, lines, run, firstRun>>
    /\ UNCHANGED notCheckpoint

NextCheckpoint ==
    \/ SaveDownloadLinks
    \/ SaveOpenFails
    \/ DownloadFilesNotFound
    \/ DownloadFilesRead
    \/ ParseNext

SpecCheckpoint == InitCheckpoint /\ [][NextCheckpoint]_vars

\* download_files is past the parse loop, or returned before it.
ParseOver == cpc \in {"workers", "done"}

\* The path of a URL: what precedes its query string.
PathOf(url) ==
    LET marks == {i \in 1..Len(url) : url[i] = "?"}
    IN  IF marks = {} THEN url
        ELSE SubSeq(url, 1, (CHOOSE i \in marks : \A j \in marks : i <= j) - 1)

\* The last segment of the path, empty when the path holds no '/'.
LastPathSegment(url) ==
    LET path == PathOf(url)
        slashes == {i \in 1..Len(path) : path[i] = "/"}
    IN  IF slashes = {} THEN <<>>
        ELSE SubSeq(path, (CHOOSE i \in slashes : \A j \in slashes : j <= i) + 1,
                    Len(path))

\* The file name a record is stored under: the last path segment of its URL,
\* or mod_<identifier>_file_<file id>.zip when that segment is empty.
FilenameOfUrl(k, url) ==
    IF LastPathSegment(url) = <<>> THEN FallbackName(k[1], k[2])
    ELSE LastPathSegment(url)

\* The DownloadTask the record (k, url) stands for.
TaskOf(k, url) ==
    [url |-> url,
     file_path |-> <<BaseDir, Domain, IntToStr(k[1]), FilenameOfUrl(k, url)>>,
     mod_id |-> k[1],
     file_id |-> k[2]]

\* C10: after save_download_links wrote the link map, the parse in
\* download_files yields exactly one DownloadTask per written record, with
\* the record's identifier, file id and URL and the destination path
\* base/domain/<identifier>/<filename of the URL>.
CheckpointRoundTrip ==
    (saved /\ ParseOver) =>
        /\ Len(parsed) = Cardinality(DOMAIN links)
        /\ \A k \in DOMAIN links :
               \E i \in 1..Len(parsed) : parsed[i] = TaskOf(k, links[k])

\* ------------------------------------------------------------------------
\* A line of the checkpoint as a record: its first two comma-separated
\* fields and the rest.
\* ------------------------------------------------------------------------
Commas(line) == {i \in 1..Len(line) : line[i] = ","}

FirstComma(line) == CHOOSE i \in Commas(line) : \A j \in Commas(line) : i <= j

SecondComma(line) ==
    CHOOSE i \in Commas(line) \ {FirstComma(line)} :
        \A j \in Commas(line) \ {FirstComma(line)} : i <= j

IsNumber(str) ==
    LET digits == IF str # <<>> /\ str[1] = "-" THEN Tail(str) ELSE str
    IN  digits # <<>> /\ \A i \in 1..Len(digits) : IsDigit(digits[i])

\* Three fields, the first two of them numbers.
WellFormedLine(line) ==
    /\ Cardinality(Commas(line)) >= 2
    /\ IsNumber(SubSeq(line, 1, FirstComma(line) - 1))
    /\ IsNumber(SubSeq(line, FirstComma(line) + 1, SecondComma(line) - 1))
    /\ SecondComma(line) < Len(line)

UrlOfLine(line) == SubSeq(line, SecondComma(line) + 1, Len(line))

WellFormedLines == SelectSeq(lines, WellFormedLine)

\* C11: a malformed line of the checkpoint (too few fields, or an
\* identifier or file id that is not a number) is skipped: it never ends the
\* parse with an exception, and once the parse is over the queue holds, in
\* order, one DownloadTask for every well-formed line before and after it.
MalformedLinesSkipped ==
    /\ cpc # "invalid_argument"
    /\ cpc = "workers" =>
          /\ Len(parsed) = Len(WellFormedLines)
          /\ \A i \in 1..Len(parsed) : parsed[i].url = UrlOfLine(WellFormedLines[i])

\* ========================================================================
\* download_files as a whole (NexusMods.cpp 329-417): the checkpoint is
\* read and parsed, the workers are started and joined, and the function may
\* be called a second time on what the first call left on disk.
\* ========================================================================
\* Two records of one identifier whose URLs end in the same file name.
SameNameCheckpoint == <<"7", ",", "1", ",", "/", "s", "\n", "7", ",", "2", ",", "x", "/", "s", "\n">>
EmptyCheckpoint == <<>>
Stage3Checkpoints == ExistingCheckpoints \cup {SameNameCheckpoint, EmptyCheckpoint}

\* A server that answers every request, one that answers none, and one that
\* may do either at each attempt.
Stage3Transports ==
    {{o} : o \in StageOutcomes} \cup {StageOutcomes}

InitStage3 ==
    /\ links = <<>>
    /\ ckExists \in BOOLEAN
    /\ ckData \in (IF ckExists THEN Stage3Checkpoints ELSE {<<>>})
    /\ saved = FALSE
    /\ cpc = "download"
    /\ lines = <<>>
    /\ li = 0
    /\ parsed = <<>>
    /\ dirs = {}
    /\ run = 1
    /\ firstRun = <<>>
    /\ download_queue = <<>>
    /\ numTasks = 0
    /\ num_threads \in 1..MaxWorkers
    /\ threads = 0
    /\ dmain = "idle"
    /\ wpc = [w \in Workers |-> "unstarted"]
    /\ wtask = [w \in Workers |-> 0]
    /\ attempt = [w \in Workers |-> 0]
    /\ progress_counter = 0
    /\ file = [t \in Tasks |-> <<>>]
    /\ status = [t \in Tasks |-> "Pending"]
    /\ attempts = [t \in Tasks |-> 0]
    /\ waits = [t \in Tasks |-> 0]
    /\ firstOk = [t \in Tasks |-> 0]
    /\ last = [t \in Tasks |-> NoOutcome]
    /\ transport \in Stage3Transports
    /\ partialWritten = [t \in Tasks |-> FALSE]
    /\ dslept = [t \in Tasks |-> 0]
    /\ IdleQueue
    /\ IdleApi
    /\ IdleMain
    /\ IdleConsole

\* Lines 397-406: the queue is built; the thread vector and the progress
\* counter are set up (std::atomic<int> progress_counter(0), line 400).
StartWorkers ==
    /\ cpc = "workers"
    /\ dmain = "idle"
    /\ cpc' = "started"
    /\ numTasks' = Len(parsed)
    /\ download_queue' = [i \in 1..Len(parsed) |-> i]
    /\ dmain' = "spawn"
    /\ UNCHANGED <<links, ckExists, ckData, saved, lines, li, parsed, dirs, run, firstRun>>
    /\ progress_counter' = 0
    /\ UNCHANGED <<num_threads, threads, wpc, wtask, attempt, file,
                   status, attempts, waits, firstOk, last, transport, partialWritten, dslept>>
    /\ UNCHANGED <<kvars, qvars, avars, mvars>>

\* download_files returned normally (line 337, 353 or 417).
Returned == cpc = "done" \/ dmain = "done"

\* download_files is called again: the checkpoint, the directories and the
\* destination files are what the first call left; everything else of the
\* function is local and starts afresh.
RunAgain ==
    /\ run = 1
    /\ Returned
    /\ run' = 2
    /\ firstRun' = file
    /\ cpc' = "download"
    /\ lines' = <<>>
    /\ li' = 0
    /\ parsed' = <<>>
    /\ download_queue' = <<>>
    /\ numTasks' = 0
    /\ threads' = 0
    /\ dmain' = "idle"
    /\ wpc' = [w \in Workers |-> "unstarted"]
    /\ wtask' = [w \in Workers |-> 0]
    /\ attempt' = [w \in Workers |-> 0]
    /\ progress_counter' = 0
    /\ status' = [t \in Tasks |-> "Pending"]
    /\ attempts' = [t \in Tasks |-> 0]
    /\ waits' = [t \in Tasks |-> 0]
    /\ firstOk' = [t \in Tasks |-> 0]
    /\ last' = [t \in Tasks |-> NoOutcome]
    /\ partialWritten' = [t \in Tasks |-> FALSE]
    /\ dslept' = [t \in Tasks |-> 0]
    /\ UNCHANGED <<links, ckExists, ckData, saved, dirs, num_threads, file, transport>>
    /\ UNCHANGED <<kvars, qvars, avars, mvars>>

NextStage3 ==
    \/ DownloadFilesNotFound
    \/ DownloadFilesRead
    \/ ParseNext
    \/ StartWorkers
    \/ NextDownload
    \/ RunAgain

SpecStage3 == InitStage3 /\ [][NextStage3]_vars

\* ------------------------------------------------------------------------
\* C12: when the checkpoint file does not exist, download_files returns
\* normally (no exception leaves it) and, up to and after that return, no
\* worker has been started, no directory created, no task queued and no
\* download attempted.
\* ------------------------------------------------------------------------
MissingCheckpointIsNoError ==
    ~ckExists =>
        /\ cpc \in {"download", "done"}
        /\ dmain = "idle"
        /\ threads = 0
        /\ \A w \in Workers : wpc[w] = "unstarted"
        /\ dirs = {}
        /\ parsed = <<>>
        /\ download_queue = <<>>
        /\ \A t \in Tasks : attempts[t] = 0 /\ file[t] = <<>>

MissingCheckpointIsNoErrorWitness ==
    /\ ~ckExists
    /\ cpc = "done"
    /\ run = 2

\* ------------------------------------------------------------------------
\* C13: download_files is idempotent.  Against a transport that answers
\* every request for a URL in the same way, a second call on the unchanged
\* checkpoint leaves every destination file as the first call left it.
\* ------------------------------------------------------------------------
DeterministicTransport == Cardinality(transport) = 1

RerunLeavesFilesAlone ==
    (run = 2 /\ Returned /\ DeterministicTransport) => file = firstRun

\* ------------------------------------------------------------------------
\* C14: in each API stage the result queue is drained only after every
\* worker of the stage has returned; when draining begins the queue holds
\* exactly one result per enqueued task, in the order the workers pushed
\* them, and from then on nothing is pushed: what is left in the queue is
\* always the not yet drained rest of those results.
\* ------------------------------------------------------------------------
\* The results in the order of their pushes.
PushedResults ==
    [k \in 1..Len(pushLog) |->
        work_function(stage, tasksIn[pushLog[k]], resp[pushLog[k]])]

DrainOnlyAfterJoin ==
    amain \in {"drain", "done"} =>
        /\ \A w \in Workers : apc[w] \in {"unstarted", "exit"}
        /\ task_queue = <<>>
        /\ Len(pushLog) = Len(tasksIn)
        /\ \A i \in Enqueued : \E k \in 1..Len(pushLog) : pushLog[k] = i
        /\ \E d \in 0..Len(pushLog) :
              result_queue = SubSeq(PushedResults, d + 1, Len(pushLog))

CompleteWhenDrainBegins ==
    (amain = "spawn" /\ amain' = "drain") => result_queue' = PushedResults'

UrlChars(u) ==
    CASE u = "http://x/a.zip" -> UrlA
      [] u = "http://x/b.zip" -> <<"h", "t", "t", "p", ":", "/", "/", "x", "/", "b", ".", "z", "i", "p">>
      [] OTHER -> <<>>

\* A function call has returned when the callee is at its end.
CallNotAwaited(pos) == TRUE
CallReturned(pos) == pos = "done"

\* download_files line 398: const unsigned int num_threads =
\* std::thread::hardware_concurrency(), on a platform whose value is hc.
DownloadPoolSize(hc) == hc

InitPipeline ==
    /\ stage = "files"
    /\ input \in FilesInputs
    /\ tasksIn = input
    /\ ApiState
    /\ IdleQueue
    /\ IdleCheckpoint
    /\ IdleMain
    /\ IdleConsole
    /\ download_queue = <<>>
    /\ numTasks = 0
    /\ num_threads = DownloadPoolSize(hw)
    /\ threads = 0
    /\ dmain = "idle"
    /\ wpc = [w \in Workers |-> "unstarted"]
    /\ wtask = [w \in Workers |-> 0]
    /\ attempt = [w \in Workers |-> 0]
    /\ progress_counter = 0
    /\ file = [t \in Tasks |-> <<>>]
    /\ status = [t \in Tasks |-> "Pending"]
    /\ attempts = [t \in Tasks |-> 0]
    /\ waits = [t \in Tasks |-> 0]
    /\ firstOk = [t \in Tasks |-> 0]
    /\ last = [t \in Tasks |-> NoOutcome]
    /\ transport = {}
    /\ partialWritten = [t \in Tasks |-> FALSE]
    /\ dslept = [t \in Tasks |-> 0]

\* part_002 line 74: generate_download_links is called with the map that
\* get_file_ids returned; lines 182-191 fill its task queue.
StartLinks ==
    /\ stage = "files"
    /\ CallReturned(amain)
    /\ stage' = "links"
    /\ input' = out
    /\ tasksIn' = Flatten(out)
    /\ task_queue' = [i \in 1..Len(Flatten(out)) |-> i]
    /\ result_queue' = <<>>
    /\ athreads' = 0
    /\ amain' = "spawn"
    /\ apc' = [w \in Workers |-> "unstarted"]
    /\ atask' = [w \in Workers |-> 0]
    /\ out' = <<>>
    /\ calls' = [i \in Entries |-> 0]
    /\ resp' = [i \in Entries |-> NoResponse]
    /\ pushLog' = <<>>
    /\ napped' = 0
    /\ UNCHANGED hw
    /\ UNCHANGED <<kvars, qvars, dvars, cvars, mvars>>

\* part_002 line 83: save_download_links is called with the map that
\* generate_download_links returned.  From here on the download servers
\* are either all reachable or all unreachable.
StartSave ==
    /\ stage = "links"
    /\ CallReturned(amain)
    /\ cpc = "idle"
    /\ links' = [k \in DOMAIN out |-> UrlChars(out[k])]
    /\ cpc' = "save"
    /\ transport' \in {{o} : o \in StageOutcomes}
    /\ UNCHANGED <<ckExists, ckData, saved, lines, li, parsed, dirs, run, firstRun>>
    /\ UNCHANGED <<download_queue, numTasks, num_threads, threads, dmain, wpc, wtask,
                   attempt, progress_counter, file, status, attempts, waits, firstOk,
                   last, partialWritten, dslept>>
    /\ UNCHANGED <<kvars, qvars, avars, mvars>>

NextPipeline ==
    \/ NextApi
    \/ StartLinks
    \/ StartSave
    \/ NextCheckpoint
    \/ StartWorkers
    \/ NextDownload

SpecPipeline == InitPipeline /\ [][NextPipeline]_vars

\* ------------------------------------------------------------------------
\* C15: within one domain the stages run in the order stage 1, stage 2,
\* checkpoint write, stage 3, each behind a full barrier: while a worker of
\* an API stage runs, nothing of the checkpoint or of the download stage
\* has happened; stage 2 starts, and later the checkpoint is written, only
\* when every worker of the stage before has returned and its results are
\* aggregated; and no download worker or attempt exists before the
\* checkpoint write has finished and the file has been parsed.
\* ------------------------------------------------------------------------
ApiWorkersRunning == \E w \in Workers : apc[w] \in {"pop", "work"}

ApiAggregated ==
    /\ amain = "done"
    /\ ~ApiWorkersRunning
    /\ task_queue = <<>>
    /\ result_queue = <<>>
    /\ Len(pushLog) = Len(tasksIn)

DownloadStarted ==
    \/ \E w \in Workers : wpc[w] # "unstarted"
    \/ \E t \in Tasks : attempts[t] > 0
    \/ dmain # "idle"

StagesInOrder ==
    /\ ApiWorkersRunning => (cpc = "idle" /\ ~ckExists /\ ~DownloadStarted)
    /\ cpc # "idle" => (stage = "links" /\ ApiAggregated)
    /\ DownloadStarted => cpc = "started"

Stage2AfterStage1 ==
    (stage = "files" /\ stage' = "links") => ApiAggregated

StagesAreBarriers == []StagesInOrder /\ [][Stage2AfterStage1]_vars

StagesAreBarriersWitness ==
    /\ dmain = "done"
    /\ saved
    /\ stage = "links"
    /\ athreads = 2
    /\ threads = 2
    /\ \A t \in 1..2 : status[t] = "Succeeded"

\* ------------------------------------------------------------------------
\* C16: in the API stages a response that is not 200, cannot be parsed or
\* lacks the expected field gives "no data" for its own task only (an empty
\* file list in stage 1, no link in stage 2).  Every result in the result
\* queue is the one that its task's own response stands for; the worker
\* that met such a response goes on popping, so every task of the stage is
\* called once and no worker is left in the middle of a task.
\* ------------------------------------------------------------------------
NoDataResponse(r) ==
    \/ r.status # 200
    \/ r.json = "invalid"
    \/ r.json = "object_no_key"
    \/ (stage = "links" /\ (r.items = <<>> \/ ~r.items[1].has))

NoData == IF stage = "files" THEN <<>> ELSE ""

OwnResult(i) ==
    <<tasksIn[i], IF stage = "files" THEN ReturnedFileIds(resp[i]) ELSE ReturnedUrl(resp[i])>>

FailuresAbsorbedPerTask ==
    /\ amain = "spawn" =>
          /\ Len(result_queue) = Len(pushLog)
          /\ \A k \in 1..Len(pushLog) :
                /\ result_queue[k] = OwnResult(pushLog[k])
                /\ NoDataResponse(resp[pushLog[k]]) => result_queue[k][2] = NoData
    /\ amain = "done" =>
          /\ \A i \in Enqueued : calls[i] = 1
          /\ \A w \in Workers : apc[w] \in {"unstarted", "exit"}

FailuresAbsorbedPerTaskWitness ==
    /\ ApiDone("files")
    /\ athreads = 1
    /\ input = <<5, 6>>
    /\ pushLog = <<1, 2>>
    /\ resp[1].status = 404
    /\ resp[2] = Response(200, "object_files", <<IntItem(100)>>)
    /\ out = (5 :> <<>>) @@ (6 :> <<100>>)

\* ------------------------------------------------------------------------
\* C17: a filesystem failure for one DownloadTask (its directory cannot be
\* created, or its file cannot be opened) aborts that task only: it never
\* ends download_files with an exception, and when the function is past the
\* parse loop every well-formed line of the checkpoint has its task queued.
\* ------------------------------------------------------------------------
FilesystemFailureIsLocal ==
    /\ cpc # "filesystem_error"
    /\ cpc \in {"workers", "started"} => Len(parsed) = Len(WellFormedLines)

\* ========================================================================
\* main (part_002 264-301): the transport library and the configuration
\* are set up, one command is run, and the library is cleaned up.  The
\* "nexus" command is followed through one domain.
\* ========================================================================
\* curl_global_init returns CURLE_OK or an error code.
CurlGlobalInit == {"CURLE_OK", "CURLE_FAILED_INIT"}

\* initialize_app (Config.cpp 133-138): the loaded or newly entered
\* configuration, or std::nullopt when neither could be had.
InitializeApp == {"value", "nullopt"}

Commands == {"nexus", "other"}

InitMain ==
    /\ mpc = "start"
    /\ curl_global = "none"
    /\ config_opt = "unread"
    /\ exit_code = 0
    /\ stage = "none"
    /\ input = <<>>
    /\ tasksIn = <<>>
    /\ task_queue = <<>>
    /\ result_queue = <<>>
    /\ hw \in 1..MaxWorkers
    /\ athreads = 0
    /\ amain = "idle"
    /\ apc = [w \in Workers |-> "unstarted"]
    /\ atask = [w \in Workers |-> 0]
    /\ out = <<>>
    /\ calls = [i \in Entries |-> 0]
    /\ resp = [i \in Entries |-> NoResponse]
    /\ pushLog = <<>>
    /\ napped = 0
    /\ IdleQueue
    /\ IdleCheckpoint
    /\ IdleConsole
    /\ download_queue = <<>>
    /\ numTasks = 0
    /\ num_threads = DownloadPoolSize(hw)
    /\ threads = 0
    /\ dmain = "idle"
    /\ wpc = [w \in Workers |-> "unstarted"]
    /\ wtask = [w \in Workers |-> 0]
    /\ attempt = [w \in Workers |-> 0]
    /\ progress_counter = 0
    /\ file = [t \in Tasks |-> <<>>]
    /\ status = [t \in Tasks |-> "Pending"]
    /\ attempts = [t \in Tasks |-> 0]
    /\ waits = [t \in Tasks |-> 0]
    /\ firstOk = [t \in Tasks |-> 0]
    /\ last = [t \in Tasks |-> NoOutcome]
    /\ transport = {}
    /\ partialWritten = [t \in Tasks |-> FALSE]
    /\ dslept = [t \in Tasks |-> 0]

\* Line 266: HTTPClient::initialize() calls curl_global_init and returns
\* void; main goes on whatever the result.
MainInitialize ==
    /\ mpc = "start"
    /\ curl_global' \in CurlGlobalInit
    /\ mpc' = "config"
    /\ UNCHANGED <<config_opt, exit_code>>
    /\ UNCHANGED <<kvars, qvars, dvars, avars, cvars>>

\* Lines 270-283: without a configuration main throws std::runtime_error,
\* which its own handler (lines 294-297) turns into exit code 1.
MainConfig ==
    /\ mpc = "config"
    /\ config_opt' \in InitializeApp
    /\ mpc' = (IF config_opt' = "nullopt" THEN "cleanup" ELSE "dispatch")
    /\ exit_code' = (IF config_opt' = "nullopt" THEN 1 ELSE exit_code)
    /\ UNCHANGED curl_global
    /\ UNCHANGED <<kvars, qvars, dvars, avars, cvars>>

\* Lines 285-291 with the "nexus" command: runNexusModsSequence asks for
\* the tracked mods (part_002 97) and calls runNexusModsForOneDomain, whose
\* first statement, get_file_ids, fills its task queue (NexusMods.cpp
\* 127-130).
MainRunNexus ==
    /\ mpc = "dispatch"
    /\ mpc' = "run"
    /\ stage' = "files"
    /\ input' \in FilesInputs
    /\ tasksIn' = input'
    /\ task_queue' = [i \in 1..Len(input') |-> i]
    /\ amain' = "spawn"
    /\ UNCHANGED <<result_queue, hw, athreads, apc, atask, out, calls, resp, pushLog, napped>>
    /\ UNCHANGED <<curl_global, config_opt, exit_code>>
    /\ UNCHANGED <<kvars, qvars, dvars, cvars>>

\* Lines 285-291 with any other command: it returns 0, or 1 for an unknown
\* command or a missing argument (part_002 242, 256).
MainRunOther ==
    /\ mpc = "dispatch"
    /\ mpc' = "cleanup"
    /\ exit_code' \in {0, 1}
    /\ UNCHANGED <<curl_global, config_opt>>
    /\ UNCHANGED <<kvars, qvars, dvars, avars, cvars>>

\* run_direct_command's value after runNexusModsSequence returned
\* (part_002 248, 258): `return 0`, whatever state st the tasks ended in.
RunDirectCommandCountsFailures(st) == IF \E t \in Tasks : st[t] = "Failed" THEN 1 ELSE 0
RunDirectCommand(st) == 0

\* The command returned: download_files was the last call of the domain,
\* and exit_code = run_direct_command(...) (line 288).
MainReturn ==
    /\ mpc = "run"
    /\ Returned
    /\ mpc' = "cleanup"
    /\ exit_code' = RunDirectCommand(status)
    /\ UNCHANGED <<curl_global, config_opt>>
    /\ UNCHANGED <<kvars, qvars, dvars, avars, cvars>>

\* Lines 294-297: an exception that left the command is caught.
MainCatch ==
    /\ mpc = "run"
    /\ cpc \in {"invalid_argument", "filesystem_error"}
    /\ mpc' = "cleanup"
    /\ exit_code' = 1
    /\ UNCHANGED <<curl_global, config_opt>>
    /\ UNCHANGED <<kvars, qvars, dvars, avars, cvars>>

\* Lines 299-300: HTTPClient::cleanup() and return exit_code.
MainCleanup ==
    /\ mpc = "cleanup"
    /\ mpc' = "exit"
    /\ UNCHANGED <<curl_global, config_opt, exit_code>>
    /\ UNCHANGED <<kvars, qvars, dvars, avars, cvars>>

NextMain ==
    \/ MainInitialize
    \/ MainConfig
    \/ MainRunNexus
    \/ MainRunOther
    \/ NextPipeline
    \/ MainReturn
    \/ MainCatch
    \/ MainCleanup

SpecMain == InitMain /\ [][NextMain]_vars

\* ------------------------------------------------------------------------
\* C18: a fatal setup failure (the transport library cannot be initialised,
\* or the configuration cannot be determined) aborts the run before any
\* pipeline stage starts: after it no stage is entered, no API request is
\* made and no download is attempted.
\* ------------------------------------------------------------------------
FatalSetupFailure == curl_global = "CURLE_FAILED_INIT" \/ config_opt = "nullopt"

FatalSetupAbortsRun ==
    FatalSetupFailure =>
        /\ stage = "none"
        /\ cpc = "idle"
        /\ dmain = "idle"
        /\ \A i \in Entries : calls[i] = 0
        /\ \A t \in Tasks : attempts[t] = 0

\* ------------------------------------------------------------------------
\* C19: every LinkTask (identifier, file id) appears at most once in the
\* task queue that generate_download_links builds from the stage-1 map,
\* whatever file lists the map holds.
\* ------------------------------------------------------------------------
LinkTasksEnqueuedOnce ==
    stage = "links" =>
        \A i, j \in Enqueued : i # j => tasksIn[i] # tasksIn[j]

\* ------------------------------------------------------------------------
\* C20: in one run of download_files no two distinct DownloadTasks have
\* the same destination path, and so no two workers are ever inside the
\* retry loop for the same file at the same time.
\* ------------------------------------------------------------------------
InRetryLoop(w) == wpc[w] \in {"attempt", "backoff"}

DestinationsAreDistinct ==
    /\ \A i, j \in 1..Len(parsed) :
           i # j => parsed[i].file_path # parsed[j].file_path
    /\ \A w1, w2 \in Workers :
           (w1 # w2 /\ InRetryLoop(w1) /\ InRetryLoop(w2))
               => Dest(wtask[w1]) # Dest(wtask[w2])

\* ------------------------------------------------------------------------
\* C21: after save_download_links returned successfully the checkpoint file
\* holds exactly one line per entry of the given link map and nothing else:
\* whatever an earlier run left in the file is gone, also when the map is
\* empty.
\* ------------------------------------------------------------------------
\* The text of a file cut at its newlines; a last line without a newline
\* counts as a line.
RECURSIVE TextLines(_)
TextLines(data) ==
    IF data = <<>> THEN <<>>
    ELSE LET nl == {i \in 1..Len(data) : data[i] = "\n"}
             p == IF nl = {} THEN Len(data) + 1
                  ELSE CHOOSE i \in nl : \A j \in nl : i <= j
         IN  <<SubSeq(data, 1, p - 1)>> \o TextLines(SubSeq(data, p + 1, Len(data)))

RecordLine(k, url) == IntToStr(k[1]) \o <<",">> \o IntToStr(k[2]) \o <<",">> \o url

CheckpointFullyRewritten ==
    saved =>
        /\ Len(TextLines(ckData)) = Cardinality(DOMAIN links)
        /\ \A k \in DOMAIN links :
               \E i \in 1..Len(TextLines(ckData)) :
                   TextLines(ckData)[i] = RecordLine(k, links[k])
        /\ \A i \in 1..Len(TextLines(ckData)) :
               \E k \in DOMAIN links : TextLines(ckData)[i] = RecordLine(k, links[k])
        /\ (ckData # <<>> => ckData[Len(ckData)] = "\n")

CheckpointFullyRewrittenWitness ==
    /\ saved
    /\ links = <<>>
    /\ ckData = <<>>
    /\ cpc = "done"

\* ------------------------------------------------------------------------
\* C22: try_pop never blocks.  A call that holds the queue returns, whether
\* or not anything is pushed later; on an empty queue it returns "empty",
\* leaving the queue as it is and handing out no item; and every successful
\* call removes exactly one item, so the items pushed are those still
\* queued plus one per successful call.
\* ------------------------------------------------------------------------
InsideTryPop(c) == qpc[c] \in {"check", "pop", "return"}

RECURSIVE SumLen(_, _)
SumLen(f, S) ==
    IF S = {} THEN 0
    ELSE LET c == CHOOSE x \in S : TRUE
         IN  Len(f[c]) + SumLen(f, S \ {c})

\* Successful calls so far: those that returned, and those past pop().
Removed == SumLen(got, Consumers) + Cardinality({c \in Consumers : qpc[c] = "return"})

OneItemPerSuccess == pushed = Len(m_queue) + Removed

EmptyLeavesQueue ==
    \A c \in Consumers :
        (qpc[c] = "check" /\ m_queue = <<>> /\ qpc'[c] # "check") =>
            /\ qpc'[c] = "done"
            /\ m_queue' = <<>>
            /\ got'[c] = got[c]

TryPopNeverBlocks ==
    /\ []OneItemPerSuccess
    /\ [][EmptyLeavesQueue]_vars
    /\ \A c \in Consumers : (InsideTryPop(c) ~> ~InsideTryPop(c))

\* A consumer was told "empty" and stopped; an item pushed later is still
\* in the queue.
TryPopNeverBlocksWitness ==
    /\ numConsumers = 1
    /\ qpc[1] = "done"
    /\ got[1] = <<1>>
    /\ m_queue = <<2>>

\* ------------------------------------------------------------------------
\* C23: the queue is first in, first out.  Items are named by their push
\* number, so in every state the items handed out so far, in the order the
\* calls held the queue, are 1, 2, ..., n: what has been removed is the
\* oldest n items pushed, the queue holds the rest in push order, and each
\* consumer got its items in push order.
\* ------------------------------------------------------------------------
Taken ==
    UNION {Range(got[c]) : c \in Consumers}
        \cup {value[c] : c \in {x \in Consumers : qpc[x] = "return"}}

QueueIsFifo ==
    /\ Taken = 1..(pushed - Len(m_queue))
    /\ m_queue = [i \in 1..Len(m_queue) |-> pushed - Len(m_queue) + i]
    /\ \A c \in Consumers : \A i, j \in 1..Len(got[c]) : i < j => got[c][i] < got[c][j]
    /\ \A c \in Consumers : qpc[c] \in {"pop", "return"} => value[c] = pushed - Len(m_queue) + (IF qpc[c] = "pop" THEN 1 ELSE 0)

\* Pushes and pops interleaved: item 3 was pushed after item 1 was popped.
QueueIsFifoWitness ==
    /\ numConsumers = 2
    /\ got[1] = <<1, 3>>
    /\ got[2] = <<2>>
    /\ pushed = 3

\* ------------------------------------------------------------------------
\* C24: the exit code of a 'nexus' run does not depend on download
\* outcomes: every run that got as far as downloading ends with exit code
\* 0, whether its tasks all Succeeded or all Failed.
\* ------------------------------------------------------------------------
ExitCodeIgnoresDownloads ==
    (mpc \in {"cleanup", "exit"} /\ dmain = "done") => exit_code = 0

ExitCodeIgnoresDownloadsWitness ==
    /\ mpc = "exit"
    /\ dmain = "done"
    /\ numTasks = 2
    /\ status[1] = "Failed"
    /\ status[2] = "Failed"
    /\ exit_code = 0

\* ------------------------------------------------------------------------
\* C25: in both API stages the number of workers started is
\* min(task_count, available_parallelism): never more workers than tasks or
\* than the parallelism, none when there is no task, and exactly the
\* minimum once the creation loop is over.
\* ------------------------------------------------------------------------
ApiWorkersStarted == Cardinality({w \in Workers : apc[w] # "unstarted"})

MinOfTasksAndParallelism == IF Len(tasksIn) <= hw THEN Len(tasksIn) ELSE hw

ApiPoolSizeIsMin ==
    stage \in {"files", "links"} =>
        /\ ApiWorkersStarted = athreads
        /\ ApiWorkersStarted <= MinOfTasksAndParallelism
        /\ amain \in {"drain", "done"} => ApiWorkersStarted = MinOfTasksAndParallelism
        /\ tasksIn = <<>> => ApiWorkersStarted = 0

ApiPoolSizeIsMinWitness ==
    /\ stage = "links"
    /\ amain = "done"
    /\ Len(tasksIn) = 1
    /\ hw = 2
    /\ ApiWorkersStarted = 1

\* ------------------------------------------------------------------------
\* C26: the download stage starts a fixed number of workers, independent of
\* the platform's available parallelism: the number of workers a run has
\* started once the creation loop is over is the number that is started on
\* every platform.
\* ------------------------------------------------------------------------
DownloadPoolIsFixed ==
    dmain \in {"join", "done"} =>
        \A h \in 1..MaxWorkers : threads = DownloadPoolSize(h)

\* ------------------------------------------------------------------------
\* C27: an API-stage worker pushes the result of a task and then sleeps
\* one second before it pops again, after every task, the last one
\* included: every step in which a worker makes its call and pushes ends
\* with that worker one more second asleep and back at the loop condition,
\* so the seconds slept always equal the results pushed.  A download
\* worker goes from a finished task straight to the next pop; it sleeps
\* only inside the retry loop.
\* ------------------------------------------------------------------------
OneSecondPerPush == stage \in {"files", "links"} => napped = Len(pushLog)

SleepFollowsPush ==
    \A w \in Workers :
        (apc[w] = "work" /\ apc'[w] # "work") =>
            /\ apc'[w] = "pop"
            /\ Len(pushLog') = Len(pushLog) + 1
            /\ Len(result_queue') = Len(result_queue) + 1
            /\ napped' = napped + 1

NoSleepAfterDownload ==
    /\ \A w \in Workers :
          (wpc[w] = "progress" /\ wpc'[w] # "progress") =>
              (wpc'[w] = "pop" /\ dslept' = dslept)
    /\ dslept' # dslept => \E w \in Workers : wpc[w] = "backoff" /\ wpc'[w] # "backoff"

ApiWorkersSleepAfterEachTask ==
    /\ []OneSecondPerPush
    /\ [][SleepFollowsPush]_vars
    /\ [][NoSleepAfterDownload]_vars

\* One API worker resolved two links and slept after each, the last one
\* included; the download workers finished two tasks without sleeping.
ApiWorkersSleepAfterEachTaskWitness ==
    /\ stage = "links"
    /\ amain = "done"
    /\ athreads = 1
    /\ Len(pushLog) = 2
    /\ napped = 2
    /\ dmain = "done"
    /\ numTasks = 2
    /\ \A t \in 1..2 : status[t] = "Succeeded" /\ dslept[t] = 0

\* ------------------------------------------------------------------------
\* C28: between a failed attempt n (n < 5) and attempt n+1 of a task the
\* worker sleeps exactly 5 seconds, the same for every n; no sleep follows
\* the 5th failed attempt or a successful attempt.  So a task that is
\* about to be attempted again has slept 5 seconds per attempt made, and a
\* task that left the retry loop 5 seconds per attempt but the last.
\* ------------------------------------------------------------------------
FiveSecondsBetweenAttempts ==
    /\ \A t \in Queued :
          /\ status[t] = "Succeeded" => dslept[t] = 5 * (attempts[t] - 1)
          /\ status[t] = "Failed" => (attempts[t] = 5 /\ dslept[t] = 20)
    /\ \A w \in Workers :
          /\ wpc[w] = "attempt" => dslept[wtask[w]] = 5 * attempts[wtask[w]]
          /\ wpc[w] = "backoff" =>
                /\ attempts[wtask[w]] < 5
                /\ ~download_file(last[wtask[w]])
                /\ dslept[wtask[w]] = 5 * (attempts[wtask[w]] - 1)

EachWaitIsFive ==
    \A t \in Tasks : dslept'[t] \in {dslept[t], dslept[t] + 5}

BackoffIsFixed == []FiveSecondsBetweenAttempts /\ [][EachWaitIsFive]_vars

BackoffIsFixedWitness ==
    /\ dmain = "done"
    /\ status[1] = "Failed"
    /\ attempts[1] = 5
    /\ waits[1] = 4
    /\ dslept[1] = 20

\* ------------------------------------------------------------------------
\* C29: the progress counter of a download stage starts at 0 and is
\* incremented once per completed task, Succeeded or Failed, never per
\* attempt: in every state it is the number of tasks that have reached a
\* final state and been counted, and after all workers have joined it is
\* the number of DownloadTasks that were enqueued.
\* ------------------------------------------------------------------------
BeingCounted(t) == \E w \in Workers : wpc[w] = "progress" /\ wtask[w] = t

CountedTasks == {t \in Queued : status[t] \in Final /\ ~BeingCounted(t)}

CounterMatchesCounted ==
    /\ progress_counter = Cardinality(CountedTasks)
    /\ threads = 0 => progress_counter = 0
    /\ dmain = "done" => progress_counter = numTasks

\* The counter moves only when a worker is done with a task, by one, and
\* not in a step that makes an attempt.
CountedOncePerTask ==
    (progress_counter' # progress_counter /\ run' = run) =>
        /\ progress_counter' = progress_counter + 1
        /\ attempts' = attempts
        /\ \E w \in Workers :
              /\ wpc[w] = "progress" /\ wpc'[w] # "progress"
              /\ status[wtask[w]] \in Final

MessageAt ==
    {"attempt", "transport_error", "downloaded", "error", "retrying", "failed",
     "progress_msg"}

\* Whether the write at a position is inside the scope of a
\* std::lock_guard<std::mutex> lock(console_mutex).  HTTPClient.cpp writes
\* to std::cerr directly; console_mutex is not visible there.
UnderConsoleMutex(pos) == pos # "transport_error"

\* The message begins: the lock_guard is constructed where there is one,
\* and the thread is inside operator<<.  A progress line shows the
\* worker's completed.
BeginWrite(w) ==
    /\ wpc[w] \in MessageAt
    /\ w \notin writing
    /\ IF UnderConsoleMutex(wpc[w])
       THEN LockGuard(console_mutex) /\ console_mutex' = {w}
       ELSE UNCHANGED console_mutex
    /\ writing' = writing \cup {w}
    /\ progress_line' = (IF wpc[w] = "progress_msg" THEN completed[w] ELSE progress_line)
    /\ UNCHANGED dvars
    /\ UNCHANGED <<q_mutex, completed, qvars, avars, cvars, mvars>>

\* Every lock_guard on console_mutex lives in a block, or a branch, that
\* ends with the message (the braces of lines 270-274, 283-286, 288-291,
\* 317-320; the branches of 278-281 and 294-298): its destructor releases
\* the mutex before the thread goes on.
HeldPastMessage(holder) == holder
ReleasedWithMessage(holder) == Unlocked

\* The message is out (std::endl); the lock_guard, if any, is destroyed and
\* the retry loop goes on from the message's place; the block of
\* completed ends with the progress line.
EndWrite(w) ==
    /\ wpc[w] \in MessageAt
    /\ w \in writing
    /\ writing' = writing \ {w}
    /\ console_mutex' = (IF UnderConsoleMutex(wpc[w])
                         THEN ReleasedWithMessage(console_mutex) ELSE console_mutex)
    /\ LET t == wtask[w]
           pos == wpc[w]
           more == LoopCond(attempt[w] + 1)
       IN
          /\ wpc' = [wpc EXCEPT ![w] =
                CASE pos = "attempt" -> "transfer"
                  [] pos = "transport_error" -> "error"
                  [] pos = "downloaded" -> "progress"
                  [] pos = "error" ->
                        (IF RetryBranch(FALSE, attempt[w]) = "sleep"
                         THEN "retrying" ELSE "failed")
                  [] pos = "retrying" -> "backoff"
                  [] pos = "failed" -> (IF more THEN "attempt" ELSE "progress")
                  [] pos = "progress_msg" -> AfterTask(status[t])]
          /\ status' = [status EXCEPT ![t] =
                CASE pos = "downloaded" -> "Succeeded"
                  [] pos = "failed" -> (IF more THEN "Attempting" ELSE "Failed")
                  [] OTHER -> status[t]]
          /\ attempt' = [attempt EXCEPT ![w] =
                IF pos = "failed" THEN attempt[w] + 1 ELSE attempt[w]]
    /\ UNCHANGED <<download_queue, numTasks, num_threads, threads, dmain, wtask,
                   progress_counter, file, attempts, waits, firstOk, last, transport,
                   partialWritten, dslept>>
    /\ completed' = (IF wpc[w] = "progress_msg"
                     THEN [completed EXCEPT ![w] = 0] ELSE completed)
    /\ UNCHANGED <<q_mutex, progress_line, qvars, avars, cvars, mvars>>

\* Line 277: HTTPClient::download_file(safe_url, file_path).  Each of its
\* three failures writes a line to std::cerr before it returns false; the
\* worker is at position failed when the call has failed.
TransferTo(w, failed) ==
    /\ wpc[w] = "transfer"
    /\ \E met \in transport :
        LET t == wtask[w]
            o == Served(t, met)
        IN
          /\ file' = [file EXCEPT ![Dest(t)] = FileAfter(file[Dest(t)], o)]
          /\ attempts' = [attempts EXCEPT ![t] = attempts[t] + 1]
          /\ last' = [last EXCEPT ![t] = o]
          /\ partialWritten' = [partialWritten EXCEPT ![t] =
                partialWritten[t] \/ (~TransportOk(o) /\ o.data # <<>>)]
          /\ firstOk' = [firstOk EXCEPT ![t] =
                IF firstOk[t] = 0 /\ TransportOk(o) THEN attempts[t] + 1 ELSE firstOk[t]]
          /\ wpc' = [wpc EXCEPT ![w] =
                IF RetryBranch(download_file(o), attempt[w]) = "return"
                THEN "downloaded" ELSE failed]
    /\ UNCHANGED <<download_queue, numTasks, num_threads, threads, dmain, wtask,
                   attempt, progress_counter, status, waits, transport, dslept>>
    /\ UNCHANGED notDownload

\* The call up to the point where its message to std::cerr begins.
Transfer(w) == TransferTo(w, "transport_error")

\* download_worker line 316: int completed = ++progress_counter, before the
\* lock_guard of line 318.
Count(w) ==
    /\ wpc[w] = "progress"
    /\ progress_counter' = PreIncrement(progress_counter)
    /\ completed' = [completed EXCEPT ![w] = PreIncrement(progress_counter)]
    /\ wpc' = [wpc EXCEPT ![w] = "progress_msg"]
    /\ UNCHANGED <<download_queue, numTasks, num_threads, threads, dmain, wtask,
                   attempt, file, status, attempts, waits, firstOk, last, transport,
                   partialWritten, dslept>>
    /\ UNCHANGED <<console_mutex, writing, q_mutex, progress_line>>
    /\ UNCHANGED <<qvars, avars, cvars, mvars>>

NextConsole ==
    \/ SpawnWorker
    \/ SpawnDone
    \/ JoinWorkers
    \/ \E w \in Workers : WorkerPop(w)
    \/ \E w \in Workers : WorkerExit(w)
    \/ \E w \in Workers : BeginWrite(w)
    \/ \E w \in Workers : EndWrite(w)
    \/ \E w \in Workers : Transfer(w)
    \/ \E w \in Workers : Backoff(w)
    \/ \E w \in Workers : Count(w)

SpecConsole == InitDownload /\ [][NextConsole]_vars

\* ------------------------------------------------------------------------
\* C30: every message written while worker threads run, the transport's
\* error messages included, is written by a thread that holds the console
\* lock, so two threads are never inside a write to the console at the
\* same time.
\* ------------------------------------------------------------------------
ConsoleWritesAreLocked ==
    /\ \A w \in writing : console_mutex = {w}
    /\ Cardinality(writing) <= 1

\* ========================================================================
\* The worker threads lock by lock (NexusMods.cpp 86-99, 109-117, 133-154,
\* 192-210, 263-322): try_pop and push take the mutex of their queue, the
\* messages take console_mutex, and the network calls and sleeps of a
\* worker are steps of their own.
\* ========================================================================
\* push and try_pop hold m_mutex through a std::lock_guard (lines 87, 92),
\* whose destructor releases it on every return of the function.
HeldAfterReturn(holder) == holder
ReleasedOnReturn(holder) == Unlocked

\* download_worker line 314, try_pop line 92: the worker takes the mutex of
\* download_queue.
PopLock(w) ==
    /\ wpc[w] = "pop"
    /\ LockGuard(q_mutex["download_queue"])
    /\ q_mutex' = [q_mutex EXCEPT !["download_queue"] = {w}]
    /\ UNCHANGED <<console_mutex, writing, completed, progress_line>>
    /\ UNCHANGED dvars
    /\ UNCHANGED <<qvars, avars, cvars, mvars>>

\* try_pop lines 93-98: the worker leaves with a task or with false, and
\* the lock_guard releases the mutex.
PopUnlock(w) ==
    /\ q_mutex["download_queue"] = {w}
    /\ PopTask(w) \/ PopNone(w)
    /\ q_mutex' = [q_mutex EXCEPT !["download_queue"] = ReleasedOnReturn(@)]
    /\ UNCHANGED <<console_mutex, writing, completed, progress_line>>
    /\ UNCHANGED <<qvars, avars, cvars, mvars>>

\* The catch block of a work function is entered (lines 149-152, 205-208):
\* the status was 200 and json::parse, or get<int>() / get<std::string>()
\* on a value of another type, threw.
Throws(st, r) ==
    /\ r.status = 200
    /\ \/ r.json = "invalid"
       \/ st = "files" /\ r.json = "object_files" /\ CollectFileIds(r.items).threw
       \/ /\ st = "links" /\ r.json = "array" /\ r.items # <<>>
          /\ r.items[1].has /\ r.items[1].type # "string"

\* The responses the lock-level stages are run against: one the work
\* function reads a result from and one that takes it into its catch block.
ParsedResponse(st) ==
    IF st = "files" THEN Response(200, "object_files", <<IntItem(100)>>)
    ELSE Response(200, "array", <<StrItem("http://x/a.zip")>>)
ThrowingResponse(st) ==
    IF st = "files" THEN Response(200, "invalid", <<>>)
    ELSE Response(200, "array", <<IntItem(7)>>)

\* Line 277 as one step: download_file with the line it writes to
\* std::cerr, which takes no lock.
DownloadCall(w) == TransferTo(w, "error")

\* api_worker line 112, try_pop line 92: the worker takes the mutex of
\* task_queue.
ApiPopLock(w) ==
    /\ apc[w] = "pop"
    /\ LockGuard(q_mutex["task_queue"])
    /\ q_mutex' = [q_mutex EXCEPT !["task_queue"] = {w}]
    /\ UNCHANGED <<console_mutex, writing, completed, progress_line>>
    /\ UNCHANGED avars
    /\ UNCHANGED <<qvars, dvars, cvars, mvars>>

\* try_pop lines 93-98 on task_queue.
ApiPopUnlock(w) ==
    /\ q_mutex["task_queue"] = {w}
    /\ ApiPopTask(w) \/ ApiPopNone(w)
    /\ q_mutex' = [q_mutex EXCEPT !["task_queue"] = ReleasedOnReturn(@)]
    /\ UNCHANGED <<console_mutex, writing, completed, progress_line>>
    /\ UNCHANGED <<qvars, dvars, cvars, mvars>>

\* work_function up to the end of its try block (lines 134-148, 193-204):
\* http_get, then the parse.
ApiCall(w) ==
    /\ apc[w] = "work"
    /\ \E r \in {ParsedResponse(stage), ThrowingResponse(stage)} :
          /\ resp' = [resp EXCEPT ![atask[w]] = r]
          /\ apc' = [apc EXCEPT ![w] = IF Throws(stage, r) THEN "parse_error" ELSE "push"]
    /\ calls' = [calls EXCEPT ![atask[w]] = calls[atask[w]] + 1]
    /\ UNCHANGED <<stage, input, tasksIn, task_queue, result_queue, hw, athreads,
                   amain, atask, out, pushLog, napped>>
    /\ UNCHANGED notApi

\* Lines 150 / 206: std::lock_guard<std::mutex> lock(console_mutex) in the
\* catch block, and the "JSON parse error" line begins.
ApiBeginWrite(w) ==
    /\ apc[w] = "parse_error"
    /\ w \notin writing
    /\ LockGuard(console_mutex)
    /\ console_mutex' = {w}
    /\ writing' = writing \cup {w}
    /\ UNCHANGED <<q_mutex, completed, progress_line>>
    /\ UNCHANGED avars
    /\ UNCHANGED <<qvars, dvars, cvars, mvars>>

\* Lines 151-152 / 207-208: the line is out and the catch block ends.
ApiEndWrite(w) ==
    /\ apc[w] = "parse_error"
    /\ w \in writing
    /\ writing' = writing \ {w}
    /\ console_mutex' = ReleasedWithMessage(console_mutex)
    /\ apc' = [apc EXCEPT ![w] = "push"]
    /\ UNCHANGED <<q_mutex, completed, progress_line>>
    /\ UNCHANGED <<stage, input, tasksIn, task_queue, result_queue, hw, athreads,
                   amain, atask, out, calls, resp, pushLog, napped>>
    /\ UNCHANGED <<qvars, dvars, cvars, mvars>>

\* api_worker line 113, push line 87: work_function has returned; the
\* worker takes the mutex of result_queue.
ApiPushLock(w) ==
    /\ apc[w] = "push"
    /\ LockGuard(q_mutex["result_queue"])
    /\ q_mutex' = [q_mutex EXCEPT !["result_queue"] = {w}]
    /\ UNCHANGED <<console_mutex, writing, completed, progress_line>>
    /\ UNCHANGED avars
    /\ UNCHANGED <<qvars, dvars, cvars, mvars>>

\* push lines 88-89: m_queue.push(std::move(value)), and the mutex is
\* released.
ApiPushUnlock(w) ==
    /\ q_mutex["result_queue"] = {w}
    /\ result_queue' = QueuePush(result_queue,
                                 work_function(stage, tasksIn[atask[w]], resp[atask[w]]))
    /\ pushLog' = Append(pushLog, atask[w])
    /\ apc' = [apc EXCEPT ![w] = "sleep"]
    /\ q_mutex' = [q_mutex EXCEPT !["result_queue"] = ReleasedOnReturn(@)]
    /\ UNCHANGED <<console_mutex, writing, completed, progress_line>>
    /\ UNCHANGED <<stage, input, tasksIn, task_queue, hw, athreads, amain, atask,
                   out, calls, resp, napped>>
    /\ UNCHANGED <<qvars, dvars, cvars, mvars>>

\* api_worker line 115: the one-second sleep, then the loop condition.
ApiSleep(w) ==
    /\ apc[w] = "sleep"
    /\ napped' = SleepFor(napped)
    /\ atask' = [atask EXCEPT ![w] = 0]
    /\ apc' = [apc EXCEPT ![w] = "pop"]
    /\ UNCHANGED <<stage, input, tasksIn, task_queue, result_queue, hw, athreads,
                   amain, out, calls, resp, pushLog>>
    /\ UNCHANGED notApi

\* The stages as the lock-level specification starts them: get_file_ids
\* and generate_download_links on one input of each size, and the download
\* stage on a queue of each size, against a server that answers every
\* request or none.
LockInputs ==
    {m \in FilesInputs : \A i \in 1..Len(m) : m[i] = (IF i % 2 = 1 THEN 5 ELSE 6)}
    \cup {m \in LinksInputs : DOMAIN m \subseteq {5}}

InitLocks ==
    \/ /\ \/ stage = "files" /\ input \in LockInputs \cap FilesInputs /\ tasksIn = input
          \/ stage = "links" /\ input \in LockInputs \cap LinksInputs /\ tasksIn = Flatten(input)
       /\ ApiState
       /\ IdleQueue
       /\ IdleDownload
       /\ IdleCheckpoint
       /\ IdleMain
       /\ IdleConsole
    \/ /\ numTasks \in 0..MaxDownloads
       /\ num_threads \in 1..MaxWorkers
       /\ transport \in {{o} : o \in StageOutcomes}
       /\ file = [t \in Tasks |-> <<>>]
       /\ DownloadState
       /\ IdleQueue
       /\ IdleApi
       /\ IdleCheckpoint
       /\ IdleMain
       /\ IdleConsole

DownloadLockStep(w) ==
    \/ PopLock(w)
    \/ PopUnlock(w)
    \/ BeginWrite(w)
    \/ EndWrite(w)
    \/ DownloadCall(w)
    \/ Backoff(w)
    \/ Count(w)

ApiLockStep(w) ==
    \/ ApiPopLock(w)
    \/ ApiPopUnlock(w)
    \/ ApiCall(w)
    \/ ApiBeginWrite(w)
    \/ ApiEndWrite(w)
    \/ ApiPushLock(w)
    \/ ApiPushUnlock(w)
    \/ ApiSleep(w)

NextLocks ==
    \/ SpawnWorker
    \/ SpawnDone
    \/ JoinWorkers
    \/ \E w \in Workers : PopLock(w)
    \/ \E w \in Workers : PopUnlock(w)
    \/ \E w \in Workers : BeginWrite(w)
    \/ \E w \in Workers : EndWrite(w)
    \/ \E w \in Workers : DownloadCall(w)
    \/ \E w \in Workers : Backoff(w)
    \/ \E w \in Workers : Count(w)
    \/ ApiSpawn
    \/ ApiJoin
    \/ ApiDrain
    \/ ApiReturn
    \/ \E w \in Workers : ApiPopLock(w)
    \/ \E w \in Workers : ApiPopUnlock(w)
    \/ \E w \in Workers : ApiCall(w)
    \/ \E w \in Workers : ApiBeginWrite(w)
    \/ \E w \in Workers : ApiEndWrite(w)
    \/ \E w \in Workers : ApiPushLock(w)
    \/ \E w \in Workers : ApiPushUnlock(w)
    \/ \E w \in Workers : ApiSleep(w)

SpecLocks == InitLocks /\ [][NextLocks]_vars

\* ------------------------------------------------------------------------
\* C31: a worker holds neither a queue's mutex nor console_mutex while it
\* is in a network call, in the one-second rate-limit sleep or in the
\* five-second backoff sleep; so a worker that cannot take a step waits
\* for a lock whose holder is not blocked in such an operation and can
\* itself take its next step.
\* ------------------------------------------------------------------------
HeldBy(w) ==
    {q \in PipelineQueues : w \in q_mutex[q]}
        \cup (IF w \in console_mutex THEN {"console_mutex"} ELSE {})

\* download_file and the backoff sleep; http_get and the rate-limit sleep.
Blocked(w) ==
    \/ wpc[w] \in {"transfer", "backoff"}
    \/ apc[w] \in {"work", "sleep"}

RunningWorker(w) ==
    \/ wpc[w] \notin {"unstarted", "exit"}
    \/ apc[w] \notin {"unstarted", "exit"}

CanStep(w) == ENABLED (DownloadLockStep(w) \/ ApiLockStep(w))

NoLockWhileBlocked == \A w \in Workers : Blocked(w) => HeldBy(w) = {}

OthersGoOn ==
    \A w \in Workers :
        RunningWorker(w) =>
            \/ CanStep(w)
            \/ \E h \in Workers \ {w} : HeldBy(h) # {} /\ ~Blocked(h) /\ CanStep(h)

BlockingHoldsNoLock == NoLockWhileBlocked /\ OthersGoOn

\* One worker sleeps in its backoff (or its rate-limit sleep) while another
\* holds the console lock or a queue's lock.
BlockingHoldsNoLockWitness ==
    \E w, h \in Workers :
        /\ w # h
        /\ \/ wpc[w] = "backoff" /\ h \in console_mutex
           \/ apc[w] = "sleep" /\ h \in q_mutex["task_queue"]
        /\ HeldBy(w) = {}

\* ------------------------------------------------------------------------
\* C32: the directory base/domain/<identifier> of every DownloadTask exists
\* when the task is in the queue, and so when the first worker is created
\* and when a download of the task is attempted: the parse loop is over by
\* then.
\* ------------------------------------------------------------------------
ParentPath(path) == SubSeq(path, 1, Len(path) - 1)

DirectoryExists(i) ==
    /\ ModDirectory(parsed[i].mod_id) \in dirs
    /\ ParentPath(parsed[i].file_path) = ModDirectory(parsed[i].mod_id)

DirectoryBeforeEnqueue ==
    /\ \A i \in 1..Len(parsed) : DirectoryExists(i)
    /\ (threads > 0 \/ download_queue # <<>>) =>
            /\ cpc = "started"
            /\ li > Len(lines)
    /\ \A t \in Tasks :
            attempts[t] > 0 => t \in 1..Len(parsed) /\ DirectoryExists(t)

\* Two tasks of different identifiers were queued and a worker has written
\* to the file of the second.
DirectoryBeforeEnqueueWitness ==
    /\ Len(parsed) = 2
    /\ parsed[1].mod_id # parsed[2].mod_id
    /\ attempts[2] > 0
    /\ file[Dest(2)] # <<>>
    /\ Cardinality(dirs) = 2

\* ------------------------------------------------------------------------
\* C33: push takes every result, whatever its key; when the stage has
\* returned, every key that several pushed results share has one entry in
\* the map, and its value is that of the result pushed last with that key.
\* ------------------------------------------------------------------------
PushedKeys == {PushedResults[j][1] : j \in 1..Len(pushLog)}

SharedKeys ==
    {k \in PushedKeys : Cardinality({j \in 1..Len(pushLog) : PushedResults[j][1] = k}) >= 2}

LastPushed(k, J) == CHOOSE j \in J : PushedResults[j][1] = k /\ \A i \in J : PushedResults[i][1] = k => i <= j

AllPushes == 1..Len(pushLog)

AggregatorKeepsLastPushed ==
    amain = "done" =>
        \A k \in SharedKeys :
            /\ k \in DOMAIN out
            /\ out[k] = PushedResults[LastPushed(k, AllPushes)][2]

\* ========================================================================
\* The stages on any platform: std::thread::hardware_concurrency() returns
\* the number of hardware thread contexts, or 0 when the value is not
\* computable or not well defined.
\* ========================================================================
HardwareConcurrency == 0..MaxWorkers

InitAnyHardware ==
    \/ /\ \/ stage = "files" /\ input \in FilesInputs /\ tasksIn = input
          \/ stage = "links" /\ input \in LinksInputs /\ tasksIn = Flatten(input)
       /\ task_queue = [i \in 1..Len(tasksIn) |-> i]
       /\ result_queue = <<>>
       /\ hw \in HardwareConcurrency
       /\ athreads = 0
       /\ amain = "spawn"
       /\ apc = [w \in Workers |-> "unstarted"]
       /\ atask = [w \in Workers |-> 0]
       /\ out = <<>>
       /\ calls = [i \in Entries |-> 0]
       /\ resp = [i \in Entries |-> NoResponse]
       /\ pushLog = <<>>
       /\ napped = 0
       /\ IdleQueue
       /\ IdleDownload
       /\ IdleCheckpoint
       /\ IdleMain
       /\ IdleConsole
    \/ /\ numTasks \in 0..MaxDownloads
       /\ num_threads \in {DownloadPoolSize(hc) : hc \in HardwareConcurrency}
       /\ transport = StageOutcomes
       /\ file = [t \in Tasks |-> <<>>]
       /\ DownloadState
       /\ IdleQueue
       /\ IdleApi
       /\ IdleCheckpoint
       /\ IdleMain
       /\ IdleConsole

NextAnyHardware ==
    \/ NextApi
    \/ NextDownload

SpecAnyHardware == InitAnyHardware /\ [][NextAnyHardware]_vars

\* ------------------------------------------------------------------------
\* C34: in each stage, when the workers have been created and joined and at
\* least one task had been enqueued, at least one worker was created and
\* the task queue is empty, whatever hardware_concurrency() returned.
\* ------------------------------------------------------------------------
StageJoined == amain \in {"drain", "done"} \/ dmain = "done"

QueueNeverLeftUnprocessed ==
    /\ (amain \in {"drain", "done"} /\ tasksIn # <<>>) =>
            athreads >= 1 /\ task_queue = <<>>
    /\ (dmain = "done" /\ numTasks > 0) =>
            threads >= 1 /\ download_queue = <<>>

\* Every thread that can take a step is eventually scheduled, and every
\* network call and sleep returns.
ApiMainStep == ApiSpawn \/ ApiJoin \/ ApiDrain \/ ApiReturn

ApiWorkerStep(w) == ApiPop(w) \/ ApiExit(w) \/ ApiWork(w)

SpecAnyHardwareFair ==
    /\ InitAnyHardware
    /\ [][NextAnyHardware]_vars
    /\ WF_vars(MainStep)
    /\ \A w \in Workers : WF_vars(WorkerStep(w))
    /\ WF_vars(ApiMainStep)
    /\ \A w \in Workers : WF_vars(ApiWorkerStep(w))

\* ------------------------------------------------------------------------
\* C35: every stage terminates.  Each network call returning and every
\* thread being scheduled, the stage reaches the point where every worker
\* has found the queue empty and returned, every join has returned, and
\* the task queue is empty; in the download stage also when every call of
\* the transport fails.
\* ------------------------------------------------------------------------
WorkersGone ==
    /\ \A w \in Workers : wpc[w] \in {"unstarted", "exit"}
    /\ \A w \in Workers : apc[w] \in {"unstarted", "exit"}

StageOver ==
    /\ amain = "done" \/ dmain = "done"
    /\ WorkersGone
    /\ task_queue = <<>>
    /\ download_queue = <<>>

EveryStageTerminates == <>StageOver

\* ------------------------------------------------------------------------
\* C36: no worker holds two locks at once (neither console_mutex with a
\* queue's mutex nor the mutexes of two queues), a worker holds no lock
\* when it sleeps, waits for the network or has returned, and in every
\* reachable state either the stage has returned or some thread can take
\* a step.
\* ------------------------------------------------------------------------
AtMostOneLock == \A w \in Workers : Cardinality(HeldBy(w)) <= 1

ReleasedBeforeBlockOrExit ==
    \A w \in Workers :
        (Blocked(w) \/ wpc[w] = "exit" \/ apc[w] = "exit") => HeldBy(w) = {}

StageReturned == amain = "done" \/ dmain = "done"

NoDeadlock == StageReturned \/ ENABLED NextLocks

NeverTwoLocks == AtMostOneLock /\ ReleasedBeforeBlockOrExit /\ NoDeadlock

\* One worker holds the console lock while another holds a queue's lock.
NeverTwoLocksWitness ==
    \E w, h \in Workers :
        /\ w # h
        /\ HeldBy(w) = {"console_mutex"}
        /\ HeldBy(h) \in {{"download_queue"}, {"result_queue"}, {"task_queue"}}

\* ------------------------------------------------------------------------
\* C37: the progress lines of a download stage come out in strictly
\* increasing order of completed: each progress line shows a larger value
\* than the progress line before it.
\* ------------------------------------------------------------------------
ProgressLineBegins == \E w \in Workers : wpc[w] = "progress_msg" /\ w \in writing' \ writing

ProgressLinesIncrease == [][ProgressLineBegins => progress_line' > progress_line]_vars

\* ------------------------------------------------------------------------
\* download_files line 401: const int total_files = lines.size(), the total
\* every progress line of download_worker shows (line 319).
\* ------------------------------------------------------------------------
total_files == Len(lines)

\* C38: the total shown in the progress lines of a download stage is the
\* number of DownloadTasks that were enqueued, and when the stage is over
\* the counter of completed tasks has reached that total, for every
\* checkpoint, one with skipped non-empty lines included.
TotalShownIsEnqueued ==
    cpc = "started" =>
        /\ total_files = numTasks
        /\ dmain = "done" => progress_counter = total_files

\* ------------------------------------------------------------------------
\* The (identifier, file id) pair a record of the checkpoint starts with.
\* ------------------------------------------------------------------------
KeyOfLine(line) ==
    <<StoI(SubSeq(line, 1, FirstComma(line) - 1)).value,
      StoI(SubSeq(line, FirstComma(line) + 1, SecondComma(line) - 1)).value>>

WrittenRecords == ReadLines(ckData)

\* C39: the records save_download_links wrote are in strictly ascending
\* (identifier, file id) order, so no two of them carry the same pair, in
\* whatever order the workers of generate_download_links pushed their
\* results.
RecordsAscending ==
    saved =>
        /\ Len(WrittenRecords) = Cardinality(DOMAIN links)
        /\ \A i, j \in 1..Len(WrittenRecords) :
               i < j => PairLess(KeyOfLine(WrittenRecords[i]),
                                 KeyOfLine(WrittenRecords[j]))

\* Two records were written, and the worker of the second task pushed its
\* result before the worker of the first.
RecordsAscendingWitness ==
    /\ saved
    /\ stage = "links"
    /\ Len(WrittenRecords) = 2
    /\ pushLog = <<2, 1>>

\* ------------------------------------------------------------------------
\* C40: the file name of every DownloadTask is the last path segment of its
\* URL without the query string, and mod_<identifier>_file_<file id>.zip
\* exactly when that segment is empty, a '/' in the query string changing
\* nothing.
\* ------------------------------------------------------------------------
FileNameIsLastPathSegment ==
    \A i \in 1..Len(parsed) :
        parsed[i].file_path[Len(parsed[i].file_path)] =
            FilenameOfUrl(<<parsed[i].mod_id, parsed[i].file_id>>, parsed[i].url)
====
